---- MODULE Spec2Model ----
(***************************************************************************)
(* A model of the copier engine (src/copier): the Worker that copies and   *)
(* updates a subproject from a template (main.py), the Template            *)
(* configuration (template.py) and the answers it persists.                *)
(*                                                                         *)
(* Names are sequences of tokens ("X" is <<"X">>, "X.tmpl" is              *)
(* <<"X", ".tmpl">>), so that suffix tests, suffix stripping and Jinja     *)
(* rendering of a name are computed and not assumed.  Paths are sequences  *)
(* of names.  A version string is kept as written (release numbers and     *)
(* pre/post/dev markers); PEP-440 order is computed from it.               *)
(***************************************************************************)
EXTENDS Integers, Sequences, FiniteSets, TLC

VARIABLES
    gate,       \* copier.__version__, the template's _min_copier_version, the loads
    mig,        \* Template.migration_tasks: its arguments, _migrations, its result
    ans,        \* the template's questions/config and the AnswersMap layers
    qry,        \* query_user_data: its arguments, its loop index, its locals
    cfg,        \* the Worker's dataclass fields and the template it is given
    pc,         \* where the running Worker method is
    fs,         \* the real destination tree: path -> entry
    scratch,    \* the temporary directory of run_update: path -> entry
    stack,      \* frames of _render_folder: the entries iterdir has still to give
    run,        \* locals of the running method (was_existing, diff, task index...)
    log         \* what the run did, in order: writes, mkdirs, tasks, removals

vars == <<gate, mig, ans, qry, cfg, pc, fs, scratch, stack, run, log>>

-----------------------------------------------------------------------------
(* Bounds of the model. *)

\* release components of the version strings range over 0..MaxComp
MaxComp == 1
\* at most MaxMig entries in _migrations
MaxMig == 2
\* at most MaxLoads template loads (copier.copy calls) in the version-gate runs
MaxLoads == 2

-----------------------------------------------------------------------------
(* packaging.version: parsing and PEP-440 order. *)

NoMark == <<>>

\* A PEP-440 version string as written: release numbers, then the optional
\* pre-release (letter, number), post-release and dev-release markers.
VersionString(rel, pre, post, dev) ==
    [ok |-> TRUE, rel |-> rel, pre |-> pre, post |-> post, dev |-> dev]

\* No version string: None, a missing key.
NotAVersion == [ok |-> FALSE, rel |-> <<>>, pre |-> NoMark, post |-> NoMark, dev |-> NoMark]

\* A reference that is no PEP-440 version (Version() raises InvalidVersion):
\* a commit hash, a `git describe` output such as v1.0-3-gabc1234.
CommitHash == [ok |-> FALSE, rel |-> <<>>, pre |-> <<"g", 0>>, post |-> NoMark, dev |-> NoMark]

Releases == UNION {[1..n -> 0..MaxComp] : n \in 1..2} \cup {<<0, 0, 0>>}

VersionStrings ==
    {VersionString(r, p, q, NoMark) :
        r \in Releases, p \in {NoMark, <<"a", 0>>}, q \in {NoMark, <<0>>}}
    \cup {VersionString(r, NoMark, NoMark, <<0>>) : r \in {<<0, 0, 0>>, <<1>>}}

RECURSIVE StripTrailingZeros(_)
StripTrailingZeros(rel) ==
    IF rel # <<>> /\ rel[Len(rel)] = 0
    THEN StripTrailingZeros(SubSeq(rel, 1, Len(rel) - 1))
    ELSE rel

LetterRank(l) == CASE l = "a" -> 0 [] l = "b" -> 1 [] l = "rc" -> 2

\* packaging.version._cmpkey: <<release, pre, post, dev>>, each of pre, post
\* and dev a pair <<class, number>> with class -1 for -Infinity and 3 for
\* +Infinity.
CmpKey(v) ==
    [rel  |-> StripTrailingZeros(v.rel),
     pre  |-> IF v.pre = NoMark /\ v.post = NoMark /\ v.dev # NoMark
                THEN <<-1, 0>>
              ELSE IF v.pre = NoMark THEN <<3, 0>>
              ELSE <<LetterRank(v.pre[1]), v.pre[2]>>,
     post |-> IF v.post = NoMark THEN <<-1, 0>> ELSE <<0, v.post[1]>>,
     dev  |-> IF v.dev = NoMark THEN <<3, 0>> ELSE <<0, v.dev[1]>>]

\* Python's tuple order on tuples of integers.
RECURSIVE TupleLess(_, _)
TupleLess(a, b) ==
    IF a = <<>> THEN b # <<>>
    ELSE IF b = <<>> THEN FALSE
    ELSE IF Head(a) # Head(b) THEN Head(a) < Head(b)
    ELSE TupleLess(Tail(a), Tail(b))

KeyLess(j, k) ==
    IF j.rel # k.rel THEN TupleLess(j.rel, k.rel)
    ELSE IF j.pre # k.pre THEN TupleLess(j.pre, k.pre)
    ELSE IF j.post # k.post THEN TupleLess(j.post, k.post)
    ELSE TupleLess(j.dev, k.dev)

\* Version.__lt__ on two strings that parse.
VersionLess(a, b) == KeyLess(CmpKey(a), CmpKey(b))

-----------------------------------------------------------------------------
(* template.py: verify_minimum_version and Template._raw_config. *)

\* copier.__version__ of an editable installation
EditableVersion == VersionString(<<0, 0, 0>>, NoMark, NoMark, NoMark)

\* no _min_copier_version key in copier.yml
NoMinVersion == NotAVersion

\* the sentinel compared as a parsed version: 0.0 and 0 would pass the gate too
VerifyMinimumVersionParsedSentinel(current, version_str) ==
    IF CmpKey(current) = CmpKey(EditableVersion) THEN FALSE
    ELSE VersionLess(current, version_str)

\* verify_minimum_version(version_str): TRUE when UnsupportedVersionError is raised
VerifyMinimumVersionRaises(current, version_str) ==
    IF current = EditableVersion THEN FALSE
    ELSE VersionLess(current, version_str)

\* Template._raw_config: the KeyError of a missing key is suppressed
RawConfigRaises(current, min) ==
    IF min = NoMinVersion THEN FALSE
    ELSE VerifyMinimumVersionRaises(current, min)

GateIdle == [version |-> EditableVersion, min |-> NoMinVersion,
             existing |-> FALSE, loads |-> 0, result |-> "none"]

GateInit ==
    \E v \in VersionStrings, m \in VersionStrings \cup {NoMinVersion} :
        gate = [version |-> v, min |-> m, existing |-> FALSE,
                loads |-> 0, result |-> "none"]

\* copier.copy(template, dst): a new Worker and Template, whose _raw_config is
\* read before anything is rendered; a run that passes leaves a subproject.
LoadTemplateConfig ==
    /\ gate.loads < MaxLoads
    /\ gate.result = "none"
    /\ gate' = [gate EXCEPT
                  !.loads = @ + 1,
                  !.result = IF RawConfigRaises(gate.version, gate.min)
                             THEN "raised" ELSE "passed",
                  !.existing = IF RawConfigRaises(gate.version, gate.min)
                               THEN @ ELSE TRUE]

\* another installation of the engine is used for the next copy
ChangeEngineVersion ==
    /\ gate.loads < MaxLoads
    /\ gate.result # "none"
    /\ \E v \in VersionStrings :
         /\ v # gate.version
         /\ gate' = [gate EXCEPT !.version = v, !.result = "none"]

-----------------------------------------------------------------------------
(* template.py: Template.migration_tasks. *)

\* from_ or to is None or the empty string
NoRef == NotAVersion

\* The versions the migrations and the update's two ends are drawn from:
\* 0a0 < 0 < 1a0 < 1 = 1.0 < ...
MigVersions ==
    {VersionString(<<n>>, p, NoMark, NoMark) : n \in 0..MaxComp, p \in {NoMark, <<"a", 0>>}}
    \cup {VersionString(<<1, 0>>, NoMark, NoMark, NoMark)}

\* One entry of _migrations as declared: its version and the stages it has.
\* An entry declares two `before` tasks and, when it has the key, one `after` task.
MigrationEntries == [version : MigVersions, hasAfter : BOOLEAN]

\* migration.get(stage, []): the declared commands of that stage, by position
DeclaredTasks(entry, stage) ==
    IF stage = "before" THEN <<1, 2>>
    ELSE IF entry.hasAfter THEN <<1>> ELSE <<>>

\* the lower end included: parsed_to >= version >= parsed_from
MigrationAppliesFromIncluded(from_, version, to) ==
    /\ ~VersionLess(to, version)
    /\ ~VersionLess(version, from_)

\* parsed_to >= parse(migration["version"]) > parsed_from
MigrationApplies(from_, version, to) ==
    /\ ~VersionLess(to, version)
    /\ VersionLess(from_, version)

\* the loop of migration_tasks over self._raw_config.get("_migrations", []),
\* from entry i on, appending to result
RECURSIVE MigrationLoop(_, _, _, _, _, _)
MigrationLoop(migrations, i, stage, from_, to, result) ==
    IF i > Len(migrations) THEN result
    ELSE LET entry == migrations[i]
             tasks == DeclaredTasks(entry, stage)
             more  == [k \in 1..Len(tasks) |->
                         [migration |-> i, task |-> tasks[k], STAGE |-> stage,
                          VERSION_FROM |-> from_, VERSION_TO |-> to,
                          VERSION_CURRENT |-> entry.version]]
         IN MigrationLoop(migrations, i + 1, stage, from_, to,
                IF MigrationApplies(from_, entry.version, to)
                THEN result \o more ELSE result)

\* Template.migration_tasks(stage, from_, to)
MigrationTasks(migrations, stage, from_, to) ==
    IF from_ = NoRef \/ to = NoRef THEN <<>>
    ELSE MigrationLoop(migrations, 1, stage, from_, to, <<>>)

MigIdle == [from |-> NoRef, to |-> NoRef, migrations |-> <<>>,
            stage |-> "none", result |-> <<>>]

MigInit ==
    \E f \in MigVersions \cup {NoRef}, t \in MigVersions :
        mig = [from |-> f, to |-> t, migrations |-> <<>>,
               stage |-> "none", result |-> <<>>]

\* the template author declares one more entry of _migrations
DeclareMigration ==
    /\ mig.stage = "none"
    /\ Len(mig.migrations) < MaxMig
    /\ \E e \in MigrationEntries :
         mig' = [mig EXCEPT !.migrations = Append(@, e)]

\* run_update asks for the tasks of a stage
CallMigrationTasks ==
    /\ mig.stage \in {"none", "before"}
    /\ \E stage \in {"before", "after"} :
         /\ mig.stage = "before" => stage = "after"
         /\ mig' = [mig EXCEPT
                      !.stage = stage,
                      !.result = MigrationTasks(mig.migrations, stage, mig.from, mig.to)]

-----------------------------------------------------------------------------
(* Mappings (Python dicts) as functions. *)

EmptyMap == <<>>

Put(f, k, v) == [x \in DOMAIN f \cup {k} |-> IF x = k THEN v ELSE f[x]]

\* dict.update: the entries of g win
Update(f, g) == [x \in DOMAIN f \cup DOMAIN g |-> IF x \in DOMAIN g THEN g[x] ELSE f[x]]

Restrict(f, S) == [x \in S \cap DOMAIN f |-> f[x]]

-----------------------------------------------------------------------------
(* template.py: filter_config, Template.secret_questions;                  *)
(* main.py: Worker.answers, Worker._answers_to_remember.                   *)

\* Keys are names: sequences of tokens; an internal key starts with "_".
QuestionNames == {<<"a">>, <<"b">>}
SecretQuestionsKey == <<"_", "secret_questions">>
CommitKey == <<"_", "commit">>
SrcPathKey == <<"_", "src_path">>
TasksKey == <<"_", "tasks">>

StartsWithUnderscore(k) == k # <<>> /\ Head(k) = "_"

\* The values of copier.yml: a scalar, a mapping (a question's details, with
\* its `secret` key when it has one) or a list (of names).
Scalar(d) == [kind |-> "scalar", default |-> d, secret |-> FALSE, names |-> {}]
Details(d, secret) == [kind |-> "dict", default |-> d, secret |-> secret, names |-> {}]
NameList(S) == [kind |-> "list", default |-> "", secret |-> FALSE, names |-> S]

\* An answer: what it is and whether it is an instance of JSONSerializable.
Answer(v, json) == [v |-> v, json |-> json]

\* filter_config(data): data is the dict as an ordered sequence of items.
\* Returns [conf |-> conf_data, questions |-> questions_data].
RECURSIVE FilterConfigLoop(_, _, _, _)
FilterConfigLoop(data, i, conf_data, questions_data) ==
    IF i > Len(data) THEN [conf |-> conf_data, questions |-> questions_data]
    ELSE LET k == data[i].key
             v == data[i].value
         IN IF k = SecretQuestionsKey
              THEN FilterConfigLoop(data, i + 1,
                       [conf_data EXCEPT !.secret_questions = @ \cup v.names],
                       questions_data)
            ELSE IF StartsWithUnderscore(k)
              THEN FilterConfigLoop(data, i + 1,
                       [conf_data EXCEPT !.settings = Put(@, Tail(k), v)],
                       questions_data)
            ELSE LET d == IF v.kind # "dict" THEN Details(v.default, FALSE) ELSE v
                 IN FilterConfigLoop(data, i + 1,
                       [conf_data EXCEPT !.secret_questions =
                            IF d.secret THEN @ \cup {k} ELSE @],
                       Put(questions_data, k, d))

FilterConfig(data) ==
    FilterConfigLoop(data, 1, [secret_questions |-> {}, settings |-> EmptyMap], EmptyMap)

\* Template.questions_data
QuestionsData(data) == FilterConfig(data).questions

\* Template.secret_questions
SecretQuestions(data) ==
    FilterConfig(data).conf.secret_questions
    \cup {k \in DOMAIN QuestionsData(data) : QuestionsData(data)[k].secret}

\* Template.default_answers
DefaultAnswers(data) ==
    [k \in DOMAIN QuestionsData(data) |-> Answer(QuestionsData(data)[k].default, TRUE)]

\* Template.metadata
Metadata(hasCommit) ==
    IF hasCommit
    THEN Put(Put(EmptyMap, SrcPathKey, Answer("url", TRUE)), CommitKey, Answer("commit", TRUE))
    ELSE Put(EmptyMap, SrcPathKey, Answer("url", TRUE))

\* AnswersMap.combined: user over init over last over metadata over default
Combined(a) == Update(Update(Update(Update(a.default, a.metadata), a.last), a.init), a.user)

\* the secret questions not filtered out
AnswersToRememberKeepingSecrets(hasCommit, combined, secret_questions) ==
    LET internal == IF hasCommit
                    THEN Put(Put(EmptyMap, CommitKey, Answer("commit", TRUE)),
                             SrcPathKey, Answer("url", TRUE))
                    ELSE Put(EmptyMap, SrcPathKey, Answer("url", TRUE))
        kept == {k \in DOMAIN combined :
                    /\ ~StartsWithUnderscore(k)
                    /\ combined[k].json}
    IN Update(internal, Restrict(combined, kept))

\* the internal keys of the combined answers not filtered out
AnswersToRememberKeepingInternal(hasCommit, combined, secret_questions) ==
    LET internal == IF hasCommit
                    THEN Put(Put(EmptyMap, CommitKey, Answer("commit", TRUE)),
                             SrcPathKey, Answer("url", TRUE))
                    ELSE Put(EmptyMap, SrcPathKey, Answer("url", TRUE))
        kept == {k \in DOMAIN combined :
                    /\ k \notin secret_questions
                    /\ combined[k].json}
    IN Update(internal, Restrict(combined, kept))

\* Worker._answers_to_remember
AnswersToRemember(hasCommit, combined, secret_questions) ==
    LET internal == IF hasCommit
                    THEN Put(Put(EmptyMap, CommitKey, Answer("commit", TRUE)),
                             SrcPathKey, Answer("url", TRUE))
                    ELSE Put(EmptyMap, SrcPathKey, Answer("url", TRUE))
        kept == {k \in DOMAIN combined :
                    /\ ~StartsWithUnderscore(k)
                    /\ k \notin secret_questions
                    /\ combined[k].json}
    IN Update(internal, Restrict(combined, kept))

\* copier.yml as the template author may write it: an optional
\* _secret_questions list, a _tasks setting, and each question absent, in the
\* simplified form, or with details.
QuestionItems(q) ==
    {<<>>, <<[key |-> q, value |-> Scalar("d")]>>}
    \cup {<<[key |-> q, value |-> Details("d", sec)]>> : sec \in BOOLEAN}

ConfigFiles ==
    {s \o t \o qa \o qb :
        s \in {<<>>} \cup {<<[key |-> SecretQuestionsKey, value |-> NameList(S)]>> :
                              S \in SUBSET QuestionNames},
        t \in {<<[key |-> TasksKey, value |-> NameList({})]>>},
        qa \in QuestionItems(<<"a">>),
        qb \in QuestionItems(<<"b">>)}

\* the maps a layer may hold over the keys K, with the values V
Layers(K, V) == UNION {[S -> V] : S \in SUBSET K}

AnsIdle == [data |-> <<>>, hasCommit |-> FALSE, force |-> FALSE, phase |-> "idle",
            answers |-> [default |-> EmptyMap, metadata |-> EmptyMap, last |-> EmptyMap,
                         init |-> EmptyMap, user |-> EmptyMap],
            remembered |-> EmptyMap, loaded |-> EmptyMap]

\* a key the caller may pass in `data` that is no question: an internal one
DataOnlyKey == <<"_", "x">>

\* A Worker is constructed on a template (its copier.yml, git-tracked or
\* not), with `data` and `force`, on a destination whose answers file holds
\* the last answers.
AnsInit ==
    \E data \in ConfigFiles, hasCommit \in BOOLEAN, force \in BOOLEAN,
       init \in Layers(QuestionNames, {Answer("init", TRUE), Answer("object", FALSE)}),
       extra \in Layers({DataOnlyKey}, {Answer("init", TRUE)}),
       last \in Layers({<<"a">>, <<"b">>, CommitKey}, {Answer("last", TRUE)}) :
        ans = [data |-> data, hasCommit |-> hasCommit, force |-> force, phase |-> "new",
               answers |-> [default |-> EmptyMap, metadata |-> EmptyMap, last |-> last,
                            init |-> Update(init, extra), user |-> EmptyMap],
               remembered |-> EmptyMap, loaded |-> EmptyMap]

\* Question.get_default(): the last answer when there is one, else the
\* question's default rendered (a default without markup renders to itself).
GetDefault(answers, q) ==
    IF q \in DOMAIN answers.last THEN {answers.last[q]}
    ELSE {answers.default[q], Answer("rendered", TRUE)}

\* Worker.answers (cached): the layers, then one answer for every question
\* that `data` does not force.  With force the answer is get_default() and
\* is stored when it differs from the combined value; without, the user
\* layer takes what the prompt returns for each question asked.
WorkerAnswers ==
    /\ ans.phase = "new"
    /\ LET result == [ans.answers EXCEPT !.default = DefaultAnswers(ans.data),
                                         !.metadata = Metadata(ans.hasCommit)]
           questions == DOMAIN QuestionsData(ans.data) \ DOMAIN result.init
       IN \E new \in [questions -> {Answer("yes", TRUE), Answer("d", TRUE),
                                   Answer("last", TRUE), Answer("rendered", TRUE)}] :
            /\ ans.force => \A q \in questions : new[q] \in GetDefault(result, q)
            /\ ~ans.force => \A q \in questions : new[q].v \in {"yes", "d"}
            /\ ans' = [ans EXCEPT
                  !.phase = "answered",
                  !.answers = [result EXCEPT !.user =
                      IF ans.force
                      THEN Restrict(new, {q \in questions : new[q] # Combined(result)[q]})
                      ELSE new]]

\* the answers file is rendered: _copier_answers = self._answers_to_remember()
RememberAnswers ==
    /\ ans.phase = "answered"
    /\ ans' = [ans EXCEPT
                 !.phase = "remembered",
                 !.remembered = AnswersToRemember(ans.hasCommit, Combined(ans.answers),
                                                  SecretQuestions(ans.data))]

\* The answers file.  A YAML scalar is a sequence of tokens: the text, with
\* quotes around it when it has some.  The strings that, written plain, YAML
\* reads as something else than a string:
YamlBooleans == {"yes", "no", "true", "false", "on", "off"}

\* to_nice_yaml on a str: quoted when the plain text would not load as a str
YamlScalar(v) == IF v \in YamlBooleans THEN <<"'", v, "'">> ELSE <<v>>

\* to_nice_yaml on a mapping of names to strs: one `key: scalar` per key
ToNiceYaml(answers) == [k \in DOMAIN answers |-> YamlScalar(answers[k].v)]

\* a loaded value: its Python type and its text
Loaded(type, text) == [type |-> type, text |-> text]

\* yaml.safe_load on a scalar
SafeLoadScalar(t) ==
    IF Len(t) = 3 /\ t[1] = "'" /\ t[3] = "'" THEN Loaded("str", t[2])
    ELSE IF t[1] \in YamlBooleans
      THEN Loaded("bool", IF t[1] \in {"yes", "true", "on"} THEN "True" ELSE "False")
    ELSE Loaded("str", t[1])

\* load_answersfile_data: yaml.safe_load of the answers file
LoadAnswersfileData(document) == [k \in DOMAIN document |-> SafeLoadScalar(document[k])]

\* The answers file the copy rendered (the template holds
\* [[ _copier_conf.answers_file ]].tmpl with [[ _copier_answers|to_nice_yaml ]])
\* is loaded back.
LoadAnswersFile ==
    /\ ans.phase = "remembered"
    /\ ans' = [ans EXCEPT
                 !.phase = "loaded",
                 !.loaded = LoadAnswersfileData(ToNiceYaml(ans.remembered))]

-----------------------------------------------------------------------------
(* config/user_data.py: query_user_data, cast_answer_type, render_value,   *)
(* parse_yaml_string, ask_interactively.                                   *)

\* Python values, by type and text: a str, an int, None
PyStr(t) == Loaded("str", t)
PyInt(t) == Loaded("int", t)
PyNone == Loaded("NoneType", "None")

\* the Jinja expression that gives the answer to question a
ExprA == "[[a]]"

\* the texts int() takes
IntTexts == {"1"}

\* type_maps
TypeMaps == {"bool", "float", "int", "json", "str", "yaml"}

\* ChainMap(result, forced_answers_data, defaults, DEFAULT_DATA) as Jinja
\* prints the variable k: str() of its value, nothing when it is undefined
ContextText(result, forced, defaults, k) ==
    IF k \in DOMAIN result THEN result[k].text
    ELSE IF k \in DOMAIN forced THEN forced[k].text
    ELSE IF k \in DOMAIN defaults THEN defaults[k].text
    ELSE ""

\* render_value: a value that is no str is returned as it is
RenderValue(value, result, forced, defaults) ==
    IF value.type # "str" THEN value
    ELSE IF value.text = ExprA THEN PyStr(ContextText(result, forced, defaults, <<"a">>))
    ELSE value

\* parse_yaml_string: yaml.safe_load of a text
ParseYamlString(text) ==
    IF text = "" THEN PyNone
    ELSE IF text \in IntTexts THEN PyInt(text)
    ELSE PyStr(text)

\* cast_answer_type(answer, type_fn): the value, or the error type_fn raises
\* that is not caught (TypeError and AttributeError are)
CastAnswerType(answer, type_name) ==
    CASE type_name = "str" ->
           [err |-> "", value |-> IF answer = PyNone THEN PyNone ELSE PyStr(answer.text)]
      [] type_name = "int" ->
           IF answer.type # "str" THEN [err |-> "", value |-> answer]
           ELSE IF answer.text \in IntTexts THEN [err |-> "", value |-> PyInt(answer.text)]
           ELSE [err |-> "ValueError", value |-> answer]
      [] OTHER ->
           [err |-> "",
            value |-> IF answer.type = "str" THEN ParseYamlString(answer.text) ELSE answer]

\* ask_interactively: prompt() returns the text the user submits, which the
\* validator (type_fn does not raise) has let through
AskInteractively(type_name) ==
    {PyStr(t) : t \in {u \in {"x", "1"} : CastAnswerType(PyStr(u), type_name).err = ""}}

\* the comparison made with the default as rendered and cast
RenderedDefault(details, default) == default

\* details.get("default", default)
RawDefault(details, default) == IF details.hasDefault THEN details.default ELSE default

\* one question of copier.yml: its name and its details (details.get("type",
\* "yaml"); details.get("default") is None without the key)
Question(name, type, hasDefault, default) ==
    [name |-> name, type |-> type, hasDefault |-> hasDefault, default |-> default]

QueryIdle == [questions |-> <<>>, last |-> EmptyMap, forced |-> EmptyMap, ask_user |-> FALSE,
              i |-> 0, result |-> EmptyMap, defaults |-> EmptyMap, prompted |-> EmptyMap,
              phase |-> "idle", error |-> ""]

\* the arguments of query_user_data: questions a and b, declared in this order
QueryInit ==
    \E ta \in {"yaml", "str", "int"}, tb \in {"yaml", "str", "path"},
       da \in {PyNone, PyStr("x"), PyStr("1"), PyInt("1")}, db \in {PyNone, PyStr(ExprA), PyStr("x")},
       last \in Layers({<<"a">>}, {PyStr("x"), PyStr("y")}) \cup Layers({<<"b">>}, {PyStr("x")}),
       forced \in Layers({<<"a">>}, {PyStr("x"), PyInt("1")}) \cup Layers({<<"b">>}, {PyStr("x")}),
       ask_user \in BOOLEAN :
        qry = [QueryIdle EXCEPT
                 !.questions = <<Question(<<"a">>, ta, da # PyNone, da),
                                 Question(<<"b">>, tb, db # PyNone, db)>>,
                 !.last = last, !.forced = forced, !.ask_user = ask_user,
                 !.i = 1, !.phase = "loop"]

\* query_user_data leaves its loop with an exception
QueryRaises(err, defaults, prompted) ==
    qry' = [qry EXCEPT !.phase = "raised", !.error = err,
                       !.defaults = defaults, !.prompted = prompted]

\* query_user_data: one turn of `for question, details in questions_data.items()`,
\* and the return after the last one
QueryUserData ==
    /\ qry.phase = "loop"
    /\ qry.i <= Len(qry.questions)
    /\ LET details == qry.questions[qry.i]
           question == details.name
           type_name == details.type
           default == CastAnswerType(
                          RenderValue(details.default, qry.result, qry.forced, qry.defaults),
                          type_name)
           defaults == Put(qry.defaults, question, default.value)
           ask_this == qry.ask_user /\ question \notin DOMAIN qry.forced
           preset == IF question \in DOMAIN qry.forced THEN qry.forced[question]
                     ELSE IF question \in DOMAIN qry.last THEN qry.last[question]
                     ELSE default.value
       IN  IF type_name \notin TypeMaps THEN QueryRaises("InvalidTypeError", qry.defaults, qry.prompted)
           ELSE IF default.err # "" THEN QueryRaises(default.err, qry.defaults, qry.prompted)
           ELSE \E answer \in (IF ask_this THEN AskInteractively(type_name) ELSE {preset}) :
                  LET prompted == IF ask_this THEN Put(qry.prompted, question, answer)
                                  ELSE qry.prompted
                      stored == CastAnswerType(answer, type_name)
                  IN IF answer = RawDefault(details, default.value)
                     THEN qry' = [qry EXCEPT
                                    !.i = @ + 1, !.defaults = defaults, !.prompted = prompted,
                                    !.phase = IF qry.i = Len(qry.questions)
                                              THEN "returned" ELSE "loop"]
                     ELSE IF stored.err # "" THEN QueryRaises(stored.err, defaults, prompted)
                     ELSE qry' = [qry EXCEPT
                                    !.i = @ + 1, !.defaults = defaults, !.prompted = prompted,
                                    !.result = Put(@, question, stored.value),
                                    !.phase = IF qry.i = Len(qry.questions)
                                              THEN "returned" ELSE "loop"]

-----------------------------------------------------------------------------
(* Names, paths and the template on disk. *)

\* Template.templates_suffix (DEFAULT_TEMPLATES_SUFFIX)
TemplatesSuffix == <<".tmpl">>

EndsWith(name, suffix) ==
    /\ Len(name) >= Len(suffix)
    /\ SubSeq(name, Len(name) - Len(suffix) + 1, Len(name)) = suffix

\* Path(*parts): empty parts are dropped
PathOf(parts) == SelectSeq(parts, LAMBDA n : n # <<>>)

Parent(p) == SubSeq(p, 1, Len(p) - 1)

IsPrefix(d, p) == Len(d) <= Len(p) /\ SubSeq(p, 1, Len(d)) = d

\* path.relative_to(base)
RelativeTo(p, base) == SubSeq(p, Len(base) + 1, Len(p))

\* f"{relpath}{suffix}": the suffix is appended to the path as a string, so
\* to its last name; str(Path(".")) is "."
WithSuffix(relpath, suffix) ==
    IF relpath = <<>> THEN <<<<".">> \o suffix>>
    ELSE [relpath EXCEPT ![Len(relpath)] = @ \o suffix]

\* a field that is None
NoName == <<>>

\* the answers file: the default name, a name the caller gives as
\* answers_file, a name the template sets as _answers_file
DefaultAnswersFile == <<".copier-answers.yml">>
NameMine == <<".mine.yml">>
NameTheirs == <<".theirs.yml">>

\* Template.answers_relpath
TemplateAnswersRelpath ==
    IF cfg.template_answers_file # NoName THEN cfg.template_answers_file
    ELSE DefaultAnswersFile

\* Worker.answers_relpath: self.answers_file or self.template.answers_relpath
AnswersRelpath ==
    IF cfg.answers_file # NoName THEN cfg.answers_file ELSE TemplateAnswersRelpath

\* Worker.subproject: answers_relpath=self.answers_file or ".copier-answers.yml"
SubprojectAnswersRelpath ==
    IF cfg.answers_file # NoName THEN cfg.answers_file ELSE DefaultAnswersFile

\* the template of the answers file: [[ _copier_conf.answers_file ]].tmpl
AnswersTemplate == <<"[[answers_file]]", ".tmpl">>

\* The template at Template.local_abspath: every entry, by its path from
\* there, with "dir" or "file".  X and sub/Y have templated siblings; the
\* name of the folder [[opt]] is a Jinja expression; a template may hold the
\* template of the answers file.
TemplateTree ==
    LET file == "file"
        dir  == "dir"
    IN  (<<<<"copier.yml">>>> :> file)
     @@ (<<<<"X">>>> :> file)
     @@ (<<<<"X", ".tmpl">>>> :> file)
     @@ (<<<<"sub">>>> :> dir)
     @@ (<<<<"sub">>, <<"Y">>>> :> file)
     @@ (<<<<"sub">>, <<"Y", ".tmpl">>>> :> file)
     @@ (<<<<"[[opt]]">>>> :> dir)
     @@ (<<<<"[[opt]]">>, <<"f">>>> :> file)
     @@ (IF cfg.answers_tpl THEN (<<AnswersTemplate>> :> file) ELSE EmptyMap)

\* Path.exists() in the template
TemplateExists(p) == p = <<>> \/ p \in DOMAIN TemplateTree

TemplateIsDir(p) == p = <<>> \/ (p \in DOMAIN TemplateTree /\ TemplateTree[p] = "dir")

\* src_abspath.iterdir(): the entries of a folder, in no order
IterDir(d) == {p \in DOMAIN TemplateTree : Len(p) = Len(d) + 1 /\ IsPrefix(d, p)}

\* DEFAULT_EXCLUDE (the names of it that the template holds or may render)
DefaultExclude == {<<"copier.yml">>, <<".git">>}

\* The bytes of a file.  A template file that is rendered gives bytes that
\* depend on the template's version; the raw files are the same in both
\* versions of the template.
Bytes(from, src, ver) == [from |-> from, src |-> src, ver |-> ver]
EmptyBytes == Bytes("empty", <<>>, "")
UserBytes == Bytes("user", <<>>, "")
TaskBytes == Bytes("task", <<>>, "")
NoBytes == Bytes("absent", <<>>, "")

\* src_abspath.read_bytes() in the template
SourceBytes(src) == Bytes("raw", src, "")

\* tpl.render(**self._render_context()).encode()
JinjaRender(src, ver) == Bytes("jinja", src, ver)

\* The answers file as its template renders it ([[ _copier_answers|to_nice_yaml ]]):
\* the answer to the question lic and the template's _commit; and the same
\* with comments the user wrote in it
AnswersBytes(lic, ver) == Bytes("answers", <<lic>>, ver)
AnnotatedAnswersBytes(lic, ver) == Bytes("answers#", <<lic>>, ver)

-----------------------------------------------------------------------------
(* A directory tree (the destination, the scratch directory): a function   *)
(* from the paths that exist to their entries; <<>> is the tree's root.    *)

DirEntry == [kind |-> "dir", bytes |-> EmptyBytes]
FileEntry(b) == [kind |-> "file", bytes |-> b]

NoTree == EmptyMap

\* Path.exists()
Exists(tree, p) == p \in DOMAIN tree

\* the first error met opening p: a missing component, or a component
\* that is a file
RECURSIVE LookupError(_, _, _)
LookupError(tree, p, i) ==
    IF i > Len(p) THEN ""
    ELSE LET d == SubSeq(p, 1, i - 1)
         IN IF d \notin DOMAIN tree THEN "FileNotFoundError"
            ELSE IF tree[d].kind = "file" THEN "NotADirectoryError"
            ELSE LookupError(tree, p, i + 1)

\* Path.read_bytes()
ReadBytes(tree, p) ==
    LET e == LookupError(tree, p, 1)
    IN  IF e # "" THEN [err |-> e, bytes |-> NoBytes]
        ELSE IF p \notin DOMAIN tree THEN [err |-> "FileNotFoundError", bytes |-> NoBytes]
        ELSE IF tree[p].kind = "dir" THEN [err |-> "IsADirectoryError", bytes |-> NoBytes]
        ELSE [err |-> "", bytes |-> tree[p].bytes]

\* Path.mkdir(exist_ok=True), without parents=True; the root's own parent
\* exists or not
Mkdir(tree, p, parentExists) ==
    IF p \in DOMAIN tree
      THEN IF tree[p].kind = "dir" THEN [err |-> "", tree |-> tree]
           ELSE [err |-> "FileExistsError", tree |-> tree]
    ELSE IF p = <<>>
      THEN IF parentExists THEN [err |-> "", tree |-> Put(tree, p, DirEntry)]
           ELSE [err |-> "FileNotFoundError", tree |-> tree]
    ELSE IF LookupError(tree, p, 1) # ""
      THEN [err |-> LookupError(tree, p, 1), tree |-> tree]
    ELSE IF tree[Parent(p)].kind # "dir"
      THEN [err |-> "NotADirectoryError", tree |-> tree]
    ELSE [err |-> "", tree |-> Put(tree, p, DirEntry)]

\* Path.write_bytes(b)
WriteBytes(tree, p, b) ==
    IF p \in DOMAIN tree /\ tree[p].kind = "dir"
      THEN [err |-> "IsADirectoryError", tree |-> tree]
    ELSE IF p = <<>> \/ LookupError(tree, p, 1) # ""
      THEN [err |-> IF p = <<>> THEN "FileNotFoundError" ELSE LookupError(tree, p, 1),
            tree |-> tree]
    ELSE IF tree[Parent(p)].kind # "dir"
      THEN [err |-> "NotADirectoryError", tree |-> tree]
    ELSE [err |-> "", tree |-> Put(tree, p, FileEntry(b))]

\* shutil.rmtree(root)
Rmtree(tree) ==
    IF <<>> \in DOMAIN tree THEN [err |-> "", tree |-> NoTree]
    ELSE [err |-> "FileNotFoundError", tree |-> tree]

\* the files of a tree, with their bytes
Files(tree) == {p \in DOMAIN tree : tree[p].kind = "file"}

-----------------------------------------------------------------------------
(* main.py: the Worker's render pipeline. *)

\* the answers to the question lic: its default, what the older copy was
\* given, what a migration makes of it
LicDefault == <<"none">>
LicGiven == <<"mit">>
LicMigrated == <<"spdx-mit">>

\* a cached_property not computed yet, or deleted
NoAnswers == [set |-> FALSE, lic |-> NoName]

\* a cached_property: computed when it is read and is not there
Memo(cached, computed) == IF cached.set THEN cached ELSE computed

\* Subproject.last_answers: the answers file of the subproject loaded, {}
\* when there is none
LastAnswers(tree) ==
    LET p == <<SubprojectAnswersRelpath>>
    IN  IF p \in Files(tree) /\ tree[p].bytes.from \in {"answers", "answers#"}
        THEN [set |-> TRUE, lic |-> tree[p].bytes.src[1]]
        ELSE [set |-> TRUE, lic |-> NoName]

\* Worker.answers, for the question lic: the last answer (the `last` layer, or
\* `data` for the old_worker) when there is one, else the default; the user
\* takes what the prompt offers
EngineAnswers(last) ==
    [set |-> TRUE, lic |-> IF last.lic # NoName THEN last.lic ELSE LicDefault]

\* The Worker that runs: self on the real destination with the template as
\* it is now, or the old_worker of run_update (replace(self, dst_path=dst_temp,
\* force=True, quiet=True, ...)) on the scratch directory with the old
\* template.
Self == [on |-> "real", ver |-> "new", force |-> cfg.force, pretend |-> cfg.pretend,
         lic |-> run.answers.lic]
OldWorkerInPlace == [on |-> "real", ver |-> "old", force |-> TRUE, pretend |-> cfg.pretend,
                     lic |-> EngineAnswers(run.last).lic]
OldWorker == [on |-> "scratch", ver |-> "old", force |-> TRUE, pretend |-> cfg.pretend,
              lic |-> EngineAnswers(run.last).lic]
Running == IF run.who = "old" THEN OldWorker ELSE Self

TreeOf(on) == IF on = "real" THEN fs ELSE scratch

\* Worker._render_string on a name: [[opt]] is replaced by the answer to opt,
\* [[answers_file]] by _copier_conf.answers_file (self.answers_relpath)
RECURSIVE RenderString(_)
RenderString(name) ==
    IF name = <<>> THEN <<>>
    ELSE (IF Head(name) = "[[opt]]" THEN cfg.opt
          ELSE IF Head(name) = "[[answers_file]]" THEN AnswersRelpath
          ELSE <<Head(name)>>)
         \o RenderString(Tail(name))

\* Worker.template_copy_root, from Template.local_abspath
TemplateCopyRoot == PathOf(<<RenderString(cfg.subdirectory)>>)

\* Worker._path_matcher: gitwildmatch on patterns that are plain names: a
\* path matches when one of its components is such a name
PathMatcher(patterns, p) == \E i \in 1..Len(p) : p[i] \in patterns

\* Worker.all_exclusions and Worker.match_exclude
MatchExclude(p) == PathMatcher(DefaultExclude \cup cfg.exclude, p)

\* Worker.match_skip: the caller's and the template's patterns, rendered
MatchSkip(p) ==
    PathMatcher({RenderString(n) : n \in cfg.skip_if_exists \cup cfg.template_skip}, p)

NoPath == [none |-> TRUE, path |-> <<>>]
SomePath(p) == [none |-> FALSE, path |-> p]

\* the parts of a path rendered without the test for an empty part
RenderPathKeepingEmptyParts(relpath) ==
    LET suffix == TemplatesSuffix
        is_template == relpath # <<>> /\ EndsWith(relpath[Len(relpath)], suffix)
        rendered == [i \in 1..Len(relpath) |-> RenderString(relpath[i])]
        stripped == IF is_template
                    THEN [rendered EXCEPT ![Len(rendered)] =
                              SubSeq(@, 1, Len(@) - Len(suffix))]
                    ELSE rendered
        result == PathOf(stripped)
    IN  IF TemplateExists(WithSuffix(relpath, suffix)) THEN NoPath
        ELSE IF ~is_template /\ TemplateExists(WithSuffix(result, suffix)) THEN NoPath
        ELSE SomePath(result)

\* Worker._render_path(relpath): relpath is relative to the copy root; the
\* templated sibling is looked up from Template.local_abspath
RenderPath(relpath) ==
    LET suffix == TemplatesSuffix
        is_template == relpath # <<>> /\ EndsWith(relpath[Len(relpath)], suffix)
        rendered == [i \in 1..Len(relpath) |-> RenderString(relpath[i])]
        stripped == IF is_template
                    THEN [rendered EXCEPT ![Len(rendered)] =
                              SubSeq(@, 1, Len(@) - Len(suffix))]
                    ELSE rendered
        result == PathOf(stripped)
    IN  IF TemplateExists(WithSuffix(relpath, suffix)) THEN NoPath
        ELSE IF \E i \in 1..Len(rendered) : rendered[i] = <<>> THEN NoPath
        ELSE IF ~is_template /\ TemplateExists(WithSuffix(result, suffix)) THEN NoPath
        ELSE SomePath(result)

\* force read before the skip matcher
SolveRenderConflictForceFirst(w, dst_relpath) ==
    IF w.force THEN {"allow"}
    ELSE IF MatchSkip(dst_relpath) THEN {"deny"}
    ELSE {"allow", "deny"}

\* Worker._solve_render_conflict: what it may return; ask() returns what the
\* user types
SolveRenderConflict(w, dst_relpath) ==
    IF MatchSkip(dst_relpath) THEN {"deny"}
    ELSE IF w.force THEN {"allow"}
    ELSE {"allow", "deny"}

\* the exclusion tested for files only
RenderAllowedFoldersNeverExcluded(w, tree, dst_relpath, is_dir, expected_contents) ==
    LET previous == ReadBytes(tree, dst_relpath)
    IN  IF dst_relpath # <<>> /\ ~is_dir /\ MatchExclude(dst_relpath) THEN {"deny"}
        ELSE IF previous.err = "FileNotFoundError" THEN {"allow"}
        ELSE IF previous.err = "IsADirectoryError"
          THEN IF is_dir THEN {"allow"} ELSE SolveRenderConflict(w, dst_relpath)
        ELSE IF previous.err # "" THEN {previous.err}
        ELSE IF previous.bytes = expected_contents THEN {"allow"}
        ELSE SolveRenderConflict(w, dst_relpath)

\* Worker._render_allowed: "allow", "deny" or the error it raises
RenderAllowed(w, tree, dst_relpath, is_dir, expected_contents) ==
    LET previous == ReadBytes(tree, dst_relpath)
    IN  IF dst_relpath # <<>> /\ MatchExclude(dst_relpath) THEN {"deny"}
        ELSE IF previous.err = "FileNotFoundError" THEN {"allow"}
        ELSE IF previous.err = "IsADirectoryError"
          THEN IF is_dir THEN {"allow"} ELSE SolveRenderConflict(w, dst_relpath)
        ELSE IF previous.err # "" THEN {previous.err}
        ELSE IF previous.bytes = expected_contents THEN {"allow"}
        ELSE SolveRenderConflict(w, dst_relpath)

\* What the render pipeline did at one destination path: a directory made,
\* a file written (done is FALSE when pretend held it back), or a line
\* reported by printf (create, identical, conflict, skip, force).
Event(op, w, src, dst, bytes, done) ==
    [op |-> op, on |-> w.on, src |-> src, dst |-> dst, bytes |-> bytes, done |-> done]

Report(what, w, src, dst) == Event(what, w, src, dst, NoBytes, FALSE)

\* the lines _solve_render_conflict prints
ConflictReports(w, src, dst_relpath) ==
    {Report("conflict", w, src, dst_relpath)}
    \cup (IF MatchSkip(dst_relpath) THEN {Report("skip", w, src, dst_relpath)}
          ELSE IF w.force THEN {Report("force", w, src, dst_relpath)}
          ELSE {})

\* the lines _render_allowed prints
Reports(w, tree, src, dst_relpath, is_dir, expected_contents) ==
    LET previous == ReadBytes(tree, dst_relpath)
    IN  IF dst_relpath # <<>> /\ MatchExclude(dst_relpath) THEN {}
        ELSE IF previous.err = "FileNotFoundError"
          THEN {Report("create", w, src, dst_relpath)}
        ELSE IF previous.err = "IsADirectoryError"
          THEN IF is_dir THEN {Report("identical", w, src, dst_relpath)}
               ELSE ConflictReports(w, src, dst_relpath)
        ELSE IF previous.err # "" THEN {}
        ELSE IF previous.bytes = expected_contents
          THEN {Report("identical", w, src, dst_relpath)}
        ELSE ConflictReports(w, src, dst_relpath)

Outcome(err, tree, push, events) ==
    [err |-> err, tree |-> tree, push |-> push, events |-> events]

\* Worker._render_folder(src_abspath), up to its loop: the ways it may go
RenderFolderOutcomes(w, tree, src) ==
    LET dst == RenderPath(RelativeTo(src, TemplateCopyRoot))
        said == Reports(w, tree, src, dst.path, TRUE, EmptyBytes)
    IN  IF dst.none THEN {Outcome("", tree, FALSE, {})}
        ELSE {  IF a = "deny" THEN Outcome("", tree, FALSE, said)
                ELSE IF a # "allow" THEN Outcome(a, tree, FALSE, {})
                ELSE IF w.pretend
                  THEN Outcome("", tree, TRUE,
                           said \cup {Event("mkdir", w, src, dst.path, EmptyBytes, FALSE)})
                ELSE LET made == Mkdir(tree, dst.path, cfg.parent)
                     IN IF made.err # "" THEN Outcome(made.err, tree, FALSE, said)
                        ELSE Outcome("", made.tree, TRUE,
                                 said \cup {Event("mkdir", w, src, dst.path, EmptyBytes, TRUE)})
              : a \in RenderAllowed(w, tree, dst.path, TRUE, EmptyBytes)}

\* tpl.render(**self._render_context()) in _render_file: the answers file
\* takes the Worker's answers
RenderTemplate(w, src) ==
    IF src[Len(src)] = AnswersTemplate THEN AnswersBytes(w.lic, w.ver)
    ELSE JinjaRender(src, w.ver)

\* the file written whatever pretend is
RenderFileOutcomesIgnoringPretend(w, tree, src) ==
    LET dst == RenderPath(RelativeTo(src, TemplateCopyRoot))
        new_content == IF EndsWith(src[Len(src)], TemplatesSuffix)
                       THEN RenderTemplate(w, src)
                       ELSE SourceBytes(src)
        said == Reports(w, tree, src, dst.path, FALSE, new_content)
    IN  IF dst.none THEN {Outcome("", tree, FALSE, {})}
        ELSE {  IF a = "deny" THEN Outcome("", tree, FALSE, said)
                ELSE IF a # "allow" THEN Outcome(a, tree, FALSE, {})
                ELSE LET written == WriteBytes(tree, dst.path, new_content)
                     IN IF written.err # "" THEN Outcome(written.err, tree, FALSE, said)
                        ELSE Outcome("", written.tree, FALSE,
                                 said \cup {Event("write", w, src, dst.path, new_content, TRUE)})
              : a \in RenderAllowed(w, tree, dst.path, FALSE, new_content)}

\* Worker._render_file(src_abspath): the ways it may go
RenderFileOutcomes(w, tree, src) ==
    LET dst == RenderPath(RelativeTo(src, TemplateCopyRoot))
        new_content == IF EndsWith(src[Len(src)], TemplatesSuffix)
                       THEN RenderTemplate(w, src)
                       ELSE SourceBytes(src)
        said == Reports(w, tree, src, dst.path, FALSE, new_content)
    IN  IF dst.none THEN {Outcome("", tree, FALSE, {})}
        ELSE {  IF a = "deny" THEN Outcome("", tree, FALSE, said)
                ELSE IF a # "allow" THEN Outcome(a, tree, FALSE, {})
                ELSE IF w.pretend
                  THEN Outcome("", tree, FALSE,
                           said \cup {Event("write", w, src, dst.path, new_content, FALSE)})
                ELSE LET written == WriteBytes(tree, dst.path, new_content)
                     IN IF written.err # "" THEN Outcome(written.err, tree, FALSE, said)
                        ELSE Outcome("", written.tree, FALSE,
                                 said \cup {Event("write", w, src, dst.path, new_content, TRUE)})
              : a \in RenderAllowed(w, tree, dst.path, FALSE, new_content)}

\* the frames of _render_folder whose loop has ended return
RECURSIVE Unwind(_)
Unwind(frames) ==
    IF frames # <<>> /\ frames[Len(frames)] = {}
    THEN Unwind(SubSeq(frames, 1, Len(frames) - 1))
    ELSE frames

-----------------------------------------------------------------------------
(* main.py: Worker.run_copy, Worker.run_update, Worker._execute_tasks. *)

\* at most MaxTasks entries in the template's _tasks
MaxTasks == 1

V1 == VersionString(<<1>>, NoMark, NoMark, NoMark)
V2 == VersionString(<<1, 1>>, NoMark, NoMark, NoMark)

\* the lowest PEP-440 version: where parse() gives a LegacyVersion, it sorts
\* below every Version
LegacyFloor == VersionString(<<0>>, NoMark, NoMark, <<0>>)

TaskOut == <<<<"task.out">>>>

Step(what, n, on) == [what |-> what, n |-> n, on |-> on]

\* where a run is: its Worker, the run_copy it is in, the local was_existing
\* of that run_copy, the task to run next, the exception raised and the one
\* that reaches the caller (with where run_copy's came from: the run or the
\* rmtree of its except clause), the diff run_update keeps, and the destination as
\* the run found it; `again` when the run repeats one that ended; the cached
\* self.subproject.last_answers and self.answers; the destination as the
\* second run_copy of run_update found it
NoRun == [who |-> "self", phase |-> "none", was_existing |-> FALSE, task |-> 0,
          raised |-> "", error |-> "", origin |-> "", diff |-> {}, before |-> NoTree,
          again |-> FALSE,
          last |-> NoAnswers, answers |-> NoAnswers, fresh_from |-> NoTree]

\* self.answers is read (by _render_context): it and the last answers it
\* takes are computed unless they are cached
ReadAnswers(r, tree) ==
    LET last == Memo(r.last, LastAnswers(tree))
    IN  [r EXCEPT !.last = last, !.answers = Memo(@, EngineAnswers(last))]

\* nothing deleted
DropMemoNothing(r) == r

\* del self.answers; del self.subproject.last_answers
DropMemo(r) == [r EXCEPT !.answers = NoAnswers, !.last = NoAnswers]

\* one task of _execute_tasks: local.cwd(dst) then subprocess.run(check=True);
\* a task that succeeds leaves its output in the destination
TaskOutcomes(tree) ==
    IF ~Exists(tree, <<>>) THEN {[err |-> "FileNotFoundError", tree |-> tree]}
    ELSE {[err |-> "", tree |-> Put(tree, TaskOut, FileEntry(TaskBytes))],
          [err |-> "CalledProcessError", tree |-> tree]}

\* a migration task of the `before` stage that rewrites the answers file
\* (an answers migration), or any other task
MigrationTaskOutcomes(tree, stage) ==
    LET p == <<AnswersRelpath>>
    IN  IF stage = "before" /\ cfg.migrates /\ p \in Files(tree)
        THEN {[err |-> "", tree |-> Put(Put(tree, TaskOut, FileEntry(TaskBytes)), p,
                                        FileEntry([tree[p].bytes EXCEPT !.src = <<LicMigrated>>]))],
              [err |-> "CalledProcessError", tree |-> tree]}
        ELSE TaskOutcomes(tree)

NoLog == [events |-> {}, steps |-> <<>>]

\* the rule applied whether or not the destination existed before
CleanupAlsoWhenExisting(tree, err, was_existing) ==
    IF cfg.cleanup_on_error
    THEN LET rm == Rmtree(tree)
         IN [tree |-> rm.tree, error |-> IF rm.err # "" THEN rm.err ELSE err,
             origin |-> IF rm.err # "" THEN "rmtree" ELSE "run",
             removed |-> rm.err = ""]
    ELSE [tree |-> tree, error |-> err, origin |-> "run", removed |-> FALSE]

\* the rule applied whether or not cleanup_on_error is set
CleanupWhateverTheFlag(tree, err, was_existing) ==
    IF ~was_existing
    THEN LET rm == Rmtree(tree)
         IN [tree |-> rm.tree, error |-> IF rm.err # "" THEN rm.err ELSE err,
             origin |-> IF rm.err # "" THEN "rmtree" ELSE "run",
             removed |-> rm.err = ""]
    ELSE [tree |-> tree, error |-> err, origin |-> "run", removed |-> FALSE]

\* the except clause of run_copy: rmtree when the run found no destination
\* and cleanup_on_error is set; then the exception goes on (the one rmtree
\* raises, when it raises, with the first one as its context)
Cleanup(tree, err, was_existing) ==
    IF ~was_existing /\ cfg.cleanup_on_error
    THEN LET rm == Rmtree(tree)
         IN [tree |-> rm.tree, error |-> IF rm.err # "" THEN rm.err ELSE err,
             origin |-> IF rm.err # "" THEN "rmtree" ELSE "run",
             removed |-> rm.err = ""]
    ELSE [tree |-> tree, error |-> err, origin |-> "run", removed |-> FALSE]

\* run_update going from its run_copy straight to the `after` tasks
AfterCopyWithoutApply(phase) ==
    CASE phase = "copy" -> "done"
      [] phase = "shadow" -> "git"
      [] phase = "fresh" -> "after"

\* where the caller of run_copy goes on when it returns
AfterCopy(phase) ==
    CASE phase = "copy" -> "done"
      [] phase = "shadow" -> "git"
      [] phase = "fresh" -> "apply"

\* An exception leaves run_copy through its except clause, and then the
\* method that called it; the scratch directory's scope ends.
CopyRaises(r, lg, w, tree, err, events) ==
    LET c == Cleanup(tree, err, r.was_existing)
    IN  /\ pc' = "failed"
        /\ stack' = <<>>
        /\ fs' = IF w.on = "real" THEN c.tree ELSE fs
        /\ scratch' = NoTree
        /\ run' = [r EXCEPT !.raised = err, !.error = c.error, !.origin = c.origin]
        /\ log' = [lg EXCEPT
                     !.events = @ \cup events,
                     !.steps = IF c.removed THEN Append(@, Step("rmtree", 0, w.on)) ELSE @]

\* run_copy going on to the tasks after the first entry of the walk
CopyContinuesTasksAtOnce(r, lg, w, tree, frames, events) ==
    /\ fs' = IF w.on = "real" THEN tree ELSE fs
    /\ scratch' = IF w.on = "scratch" THEN tree ELSE scratch
    /\ stack' = Unwind(frames)
    /\ pc' = IF cfg.tasks > 0 THEN "tasks"
             ELSE IF Unwind(frames) # <<>> THEN "render"
             ELSE AfterCopy(r.phase)
    /\ run' = r
    /\ log' = [lg EXCEPT !.events = @ \cup events]

\* run_copy goes on after one entry of the walk: with the frames left, or,
\* the walk over, with the tasks
CopyContinues(r, lg, w, tree, frames, events) ==
    /\ fs' = IF w.on = "real" THEN tree ELSE fs
    /\ scratch' = IF w.on = "scratch" THEN tree ELSE scratch
    /\ stack' = Unwind(frames)
    /\ pc' = IF Unwind(frames) # <<>> THEN "render"
             ELSE IF cfg.tasks > 0 THEN "tasks"
             ELSE AfterCopy(r.phase)
    /\ run' = r
    /\ log' = [lg EXCEPT !.events = @ \cup events]

\* run_copy, from its first line to the first entry of the walk;
\* template_copy_root renders the subdirectory, which reads self.answers
StartCopy(r, lg, w, tree) ==
    LET r0 == [r EXCEPT !.was_existing = Exists(tree, <<>>), !.task = 1]
        r1 == IF w.on = "real" THEN ReadAnswers(r0, tree) ELSE r0
        lg1 == [lg EXCEPT !.steps = Append(@, Step("render", 0, w.on))]
    IN \E o \in RenderFolderOutcomes(w, tree, TemplateCopyRoot) :
          IF o.err # "" THEN CopyRaises(r1, lg1, w, o.tree, o.err, o.events)
          ELSE CopyContinues(r1, lg1, w, o.tree,
                   IF o.push THEN <<IterDir(TemplateCopyRoot)>> ELSE <<>>, o.events)

\* Worker.run_copy, called by run_auto when src_path is given
RunCopy ==
    /\ pc = "new"
    /\ cfg.method = "copy"
    /\ StartCopy([run EXCEPT !.who = "self", !.phase = "copy", !.before = fs],
                 log, Self, fs)

\* copy() is called a second time with the arguments of a copy that ended: a
\* new Worker, run_auto, run_copy
CopyAgain ==
    /\ pc = "done"
    /\ cfg.method = "copy"
    /\ ~run.again
    /\ StartCopy([NoRun EXCEPT !.who = "self", !.phase = "copy", !.before = fs,
                              !.again = TRUE],
                 NoLog, Self, fs)

\* the loop of _render_folder gives a folder: _render_folder(file)
RenderFolder ==
    /\ pc = "render"
    /\ \E src \in stack[Len(stack)] :
         /\ TemplateIsDir(src)
         /\ LET w == Running
                rest == [stack EXCEPT ![Len(stack)] = @ \ {src}]
            IN \E o \in RenderFolderOutcomes(w, TreeOf(w.on), src) :
                 IF o.err # "" THEN CopyRaises(run, log, w, o.tree, o.err, o.events)
                 ELSE CopyContinues(run, log, w, o.tree,
                          IF o.push THEN Append(rest, IterDir(src)) ELSE rest, o.events)

\* the loop of _render_folder gives a file: _render_file(file)
RenderFile ==
    /\ pc = "render"
    /\ \E src \in stack[Len(stack)] :
         /\ ~TemplateIsDir(src)
         /\ LET w == Running
                rest == [stack EXCEPT ![Len(stack)] = @ \ {src}]
            IN \E o \in RenderFileOutcomes(w, TreeOf(w.on), src) :
                 IF o.err # "" THEN CopyRaises(run, log, w, o.tree, o.err, o.events)
                 ELSE CopyContinues(run, log, w, o.tree, rest, o.events)

\* _execute_tasks in run_copy: the next of the template's tasks
ExecuteTask ==
    /\ pc = "tasks"
    /\ run.task <= cfg.tasks
    /\ LET w == Running
           lg == [log EXCEPT !.steps = Append(@, Step("task", run.task, w.on))]
       IN \E o \in TaskOutcomes(TreeOf(w.on)) :
            IF o.err # "" THEN CopyRaises(run, lg, w, o.tree, o.err, {})
            ELSE /\ fs' = IF w.on = "real" THEN o.tree ELSE fs
                 /\ scratch' = IF w.on = "scratch" THEN o.tree ELSE scratch
                 /\ pc' = IF run.task < cfg.tasks THEN "tasks" ELSE AfterCopy(run.phase)
                 /\ run' = [run EXCEPT !.task = @ + 1]
                 /\ log' = lg
                 /\ UNCHANGED stack

\* the downgrade test the other way round
DowngradingReversed(old, new) == old.ok /\ new.ok /\ VersionLess(old, new)

\* Version(old) > Version(new), False when either raises InvalidVersion
Downgrading(old, new) == old.ok /\ new.ok /\ VersionLess(new, old)

\* self.template.migration_tasks(stage, subproject.template.ref,
\* template.commit) in run_update.  A reference that is no PEP-440 version
\* makes parse() raise InvalidVersion, or (packaging < 22) gives a
\* LegacyVersion, which sorts below every Version.
UpdateMigrationTasks(stage) ==
    IF cfg.old_ref.ok /\ cfg.new_commit.ok
      THEN [err |-> "", tasks |-> MigrationTasks(cfg.migrations, stage,
                                                 cfg.old_ref, cfg.new_commit)]
    ELSE IF cfg.packaging = "strict" THEN [err |-> "InvalidVersion", tasks |-> <<>>]
    ELSE IF ~cfg.new_commit.ok THEN [err |-> "", tasks |-> <<>>]
    ELSE [err |-> "", tasks |-> MigrationTasks(cfg.migrations, stage,
                                               LegacyFloor, cfg.new_commit)]

\* git diff-tree HEAD...FETCH_HEAD in the scratch repository: the files that
\* differ between the old template's render and the real destination
DiffTree(old, real) ==
    {[path |-> p,
      pre  |-> IF p \in Files(old) THEN old[p].bytes ELSE NoBytes,
      post |-> IF p \in Files(real) THEN real[p].bytes ELSE NoBytes] :
        p \in {q \in Files(old) \cup Files(real) :
                  ~(q \in Files(old) /\ q \in Files(real) /\ old[q] = real[q])}}

\* run_update failing with the scratch directory left behind
UpdateRaisesKeepingScratch(r, err) ==
    /\ pc' = "failed"
    /\ run' = [r EXCEPT !.raised = err, !.error = err]
    /\ UNCHANGED <<fs, scratch, stack, log>>

\* run_update fails before or in the with block; the scratch directory's
\* scope ends
UpdateRaises(r, err) ==
    /\ pc' = "failed"
    /\ run' = [r EXCEPT !.raised = err, !.error = err]
    /\ scratch' = NoTree
    /\ UNCHANGED <<fs, stack, log>>

\* the checks without the one of the working tree
PreconditionFailsButDirty ==
    \/ cfg.vcs # "git"
    \/ ~cfg.old_src \/ cfg.old_ref = NoRef
    \/ cfg.new_commit = NoRef

\* "Check all you need is there": the subproject is git-tracked, its working
\* tree is clean, subproject.template (from the _src_path of the last
\* answers) and its ref (from their _commit) are known, the template has a
\* commit
PreconditionFails ==
    \/ cfg.vcs # "git"
    \/ cfg.dirty
    \/ ~cfg.old_src \/ cfg.old_ref = NoRef
    \/ cfg.new_commit = NoRef

\* Worker.run_update, called by run_auto without src_path: the checks (the
\* third reads self.subproject.last_answers), then the old template copied
\* into a new temporary directory
RunUpdate ==
    /\ pc = "new"
    /\ cfg.method = "update"
    /\ IF PreconditionFails \/ Downgrading(cfg.old_ref, cfg.new_commit)
       THEN UpdateRaises([run EXCEPT !.before = fs,
                                     !.last = IF cfg.vcs = "git" /\ ~cfg.dirty
                                              THEN LastAnswers(fs) ELSE @],
                         "UserMessageError")
       ELSE StartCopy([run EXCEPT !.who = "old", !.phase = "shadow", !.before = fs,
                                  !.last = LastAnswers(fs)],
                      [log EXCEPT !.steps = Append(@, Step("shadow", 0, "scratch"))],
                      OldWorker, Put(NoTree, <<>>, DirEntry))

\* the git commands of run_update in the scratch directory, to the diff; the
\* with block ends; then the `before` migration tasks are looked up
GitDiff ==
    /\ pc = "git"
    /\ \E succeeds \in BOOLEAN :
         IF ~succeeds THEN UpdateRaises(run, "ProcessExecutionError")
         ELSE IF UpdateMigrationTasks("before").err # ""
           THEN /\ pc' = "failed"
                /\ run' = [run EXCEPT !.raised = UpdateMigrationTasks("before").err,
                                      !.error = UpdateMigrationTasks("before").err,
                                      !.diff = DiffTree(scratch, fs)]
                /\ scratch' = NoTree
                /\ log' = [log EXCEPT !.steps = Append(@, Step("diff", 0, "scratch"))]
                /\ UNCHANGED <<fs, stack>>
         ELSE /\ pc' = "before"
              /\ run' = [run EXCEPT !.who = "self", !.task = 1,
                                    !.diff = DiffTree(scratch, fs)]
              /\ scratch' = NoTree
              /\ log' = [log EXCEPT !.steps = Append(@, Step("diff", 0, "scratch"))]
              /\ UNCHANGED <<fs, stack>>

\* _execute_tasks in run_update: the next migration task of the stage; its
\* command is rendered (which reads self.answers) and run
ExecuteMigrationTask ==
    /\ pc \in {"before", "after"}
    /\ run.task <= Len(UpdateMigrationTasks(pc).tasks)
    /\ LET lg == [log EXCEPT !.steps = Append(@, Step(pc, run.task, "real"))]
           r == ReadAnswers(run, fs)
       IN \E o \in MigrationTaskOutcomes(fs, pc) :
            /\ fs' = o.tree
            /\ log' = lg
            /\ UNCHANGED <<scratch, stack>>
            /\ IF o.err # ""
               THEN /\ pc' = "failed"
                    /\ run' = [r EXCEPT !.raised = o.err, !.error = o.err]
               ELSE /\ pc' = IF pc = "after" /\ run.task = Len(UpdateMigrationTasks(pc).tasks)
                             THEN "done" ELSE pc
                    /\ run' = [r EXCEPT !.task = @ + 1]

\* run_update after the `before` tasks: the cached answers are dropped and
\* self.run_copy() renders the template into the real destination
FreshCopy ==
    /\ pc = "before"
    /\ run.task > Len(UpdateMigrationTasks("before").tasks)
    /\ StartCopy(DropMemo([run EXCEPT !.who = "self", !.phase = "fresh", !.fresh_from = fs]),
                 log, Self, fs)

\* git apply --exclude <pattern>: the patterns are the answers file and the
\* caller's skip_if_exists, matched against the whole path
ApplyExcludes(p) == p = <<AnswersRelpath>> \/ \E n \in cfg.skip_if_exists : p = <<n>>

\* what git apply --reject may do with the diff of one file: apply it, reject
\* it into a .rej file, or leave the file alone.  A hunk whose context is
\* found in a file that is not the one the diff was made from still applies.
HunkOutcomes(tree, e) ==
    LET cur == ReadBytes(tree, e.path)
    IN  IF ApplyExcludes(e.path) THEN {"skip"}
        ELSE IF e.pre = NoBytes
          THEN IF cur.err = "FileNotFoundError" THEN {"apply"} ELSE {"skip"}
        ELSE IF cur.err # "" THEN {"skip"}
        ELSE IF cur.bytes = e.pre THEN {"apply"}
        ELSE IF e.post = NoBytes THEN {"reject"}
        ELSE {"apply", "reject"}

Ancestors(p) == {SubSeq(p, 1, n) : n \in 0..(Len(p) - 1)}

\* the destination after git apply took the decision `choice` for each file
Applied(tree, diff, choice) ==
    LET hit == {e \in diff : choice[e] = "apply"}
        gone == {e.path : e \in {x \in hit : x.post = NoBytes}}
        put == {e.path : e \in {x \in hit : x.post # NoBytes}}
        rej == {WithSuffix(e.path, <<".rej">>) : e \in {x \in diff : choice[x] = "reject"}}
        dirs == UNION {Ancestors(p) : p \in put \cup rej}
        entry(p) == LET e == CHOOSE x \in hit : x.path = p
                    IN IF ReadBytes(tree, p).err = "" /\ tree[p].bytes # e.pre
                       THEN FileEntry(Bytes("merged", p, ""))
                       ELSE FileEntry(e.post)
    IN  [p \in ((DOMAIN tree \ gone) \cup put \cup rej \cup dirs) |->
            IF p \in put THEN entry(p)
            ELSE IF p \in rej THEN FileEntry(Bytes("rej", p, ""))
            ELSE IF p \in DOMAIN tree THEN tree[p]
            ELSE DirEntry]

\* run_update: the cached diff is applied in the real destination
\* (retcode=None: no exit status raises); then the `after` tasks are looked up
ApplyDiff ==
    /\ pc = "apply"
    /\ \E choice \in [run.diff -> {"apply", "reject", "skip"}] :
         /\ \A e \in run.diff : choice[e] \in HunkOutcomes(fs, e)
         /\ fs' = Applied(fs, run.diff, choice)
         /\ pc' = IF Len(UpdateMigrationTasks("after").tasks) = 0 THEN "done" ELSE "after"
         /\ run' = [run EXCEPT !.task = 1]
         /\ log' = [log EXCEPT !.steps = Append(@, Step("apply", 0, "real"))]
         /\ UNCHANGED <<scratch, stack>>

-----------------------------------------------------------------------------
(* The Worker's fields and the destinations it is run on. *)

NameX == <<"X">>
NameSub == <<"sub">>
NameApp == <<"app">>
NameKeep == <<"keep">>

\* the migrations copier.yml declares: one, at the newer version
Migrations == <<[version |-> V2, hasAfter |-> TRUE]>>

References == {NoRef, CommitHash, V1, V2}

\* the fields every Worker has
WorkerFields ==
    [force : BOOLEAN, cleanup_on_error : BOOLEAN, tasks : 0..MaxTasks,
     skip_if_exists : {{}, {NameX}}, template_skip : {{}, {NameX}}]

\* copy(src_path, dst_path, ...): a Worker and run_auto with src_path
CopyWorkers ==
    {[method |-> "copy", force |-> f.force, cleanup_on_error |-> f.cleanup_on_error,
      tasks |-> f.tasks, skip_if_exists |-> f.skip_if_exists,
      template_skip |-> f.template_skip,
      pretend |-> c.pretend, subdirectory |-> c.subdirectory, exclude |-> c.exclude,
      opt |-> c.opt, parent |-> c.parent,
      vcs |-> "none", dirty |-> FALSE, old_src |-> FALSE, old_ref |-> NoRef,
      new_commit |-> V2,
      migrations |-> Migrations, packaging |-> "strict",
      answers_file |-> NoName, template_answers_file |-> NoName,
      answers_tpl |-> FALSE, migrates |-> FALSE] :
        f \in WorkerFields,
        c \in [pretend : BOOLEAN, subdirectory : {<<>>, NameSub},
               exclude : {{}, {NameSub, NameX}, {NameApp}},
               opt : {<<>>, NameApp}, parent : BOOLEAN]}

\* copy(dst_path=..., ...) without src_path: a Worker and run_auto, on a
\* subproject a copy of the older template made
UpdateWorkers ==
    {[method |-> "update", force |-> f.force, cleanup_on_error |-> f.cleanup_on_error,
      tasks |-> f.tasks, skip_if_exists |-> f.skip_if_exists,
      template_skip |-> f.template_skip,
      pretend |-> FALSE, subdirectory |-> <<>>, exclude |-> {},
      opt |-> NameApp, parent |-> TRUE,
      vcs |-> u.vcs, dirty |-> u.dirty, old_src |-> u.old_src, old_ref |-> u.old_ref,
      new_commit |-> u.new_commit,
      migrations |-> Migrations, packaging |-> u.packaging,
      answers_file |-> NoName, template_answers_file |-> NoName,
      answers_tpl |-> FALSE, migrates |-> FALSE] :
        f \in WorkerFields,
        u \in [vcs : {"git", "none"}, dirty : BOOLEAN, old_src : BOOLEAN,
               old_ref : References,
               new_commit : References, packaging : {"strict", "legacy"}]}

\* the destinations of a copy: none (with or without the folder it would be
\* made in), an empty folder, a folder with the user's files, a folder whose
\* entries are of the other kind than the template's
CopyDestinations ==
    { NoTree,
      (<<>> :> DirEntry),
      (<<>> :> DirEntry) @@ (<<NameKeep>> :> FileEntry(UserBytes))
                         @@ (<<NameX>> :> FileEntry(UserBytes)),
      (<<>> :> DirEntry) @@ (<<NameKeep>> :> FileEntry(UserBytes))
                         @@ (<<NameX>> :> DirEntry)
                         @@ (<<NameSub>> :> FileEntry(UserBytes)) }

\* the destinations of an update: what the older template rendered, X as
\* rendered or as the user rewrote it since
UpdateDestinations ==
    { (<<>> :> DirEntry)
        @@ (<<NameX>> :> FileEntry(x))
        @@ (<<NameSub>> :> DirEntry)
        @@ (<<NameSub, <<"Y">>>> :> FileEntry(JinjaRender(<<NameSub, <<"Y", ".tmpl">>>>, "old")))
        @@ (<<NameApp>> :> DirEntry)
        @@ (<<NameApp, <<"f">>>> :> FileEntry(SourceBytes(<<<<"[[opt]]">>, <<"f">>>>)))
      : x \in {JinjaRender(<<<<"X", ".tmpl">>>>, "old"), UserBytes} }

\* copy(dst_path=..., ...) without src_path on a git-tracked, clean subproject
\* of a template that holds the template of the answers file and migrates
\* from the older version: with or without answers_file, _answers_file, an
\* answers migration
UpdateAnswersWorkers ==
    {[method |-> "update", force |-> a.force, cleanup_on_error |-> FALSE,
      tasks |-> a.tasks, skip_if_exists |-> a.skip_if_exists, template_skip |-> {},
      pretend |-> FALSE, subdirectory |-> <<>>, exclude |-> {},
      opt |-> NameApp, parent |-> TRUE,
      vcs |-> "git", dirty |-> FALSE,
      old_src |-> (a.answers_file # NoName \/ a.template_answers_file = NoName),
      old_ref |-> V1, new_commit |-> V2,
      migrations |-> Migrations, packaging |-> "strict",
      answers_file |-> a.answers_file, template_answers_file |-> a.template_answers_file,
      answers_tpl |-> TRUE, migrates |-> a.migrates] :
        a \in [force : BOOLEAN, tasks : 0..MaxTasks,
               skip_if_exists : {{}, {<<"f">>}},
               answers_file : {NoName, NameMine},
               template_answers_file : {NoName, NameTheirs},
               migrates : BOOLEAN]}

\* the destinations of such an update: what the older template rendered,
\* the answers file where the Worker writes it; X and app/f as rendered or
\* as the user rewrote them since, the answers file as rendered or with the
\* user's comments.  The subproject's template is known (_src_path of the
\* last answers) when the answers file is where the subproject looks for it.
UpdateAnswersDestinations ==
    { (<<>> :> DirEntry)
        @@ (<<NameX>> :> FileEntry(x))
        @@ (<<NameSub>> :> DirEntry)
        @@ (<<NameSub, <<"Y">>>> :> FileEntry(JinjaRender(<<NameSub, <<"Y", ".tmpl">>>>, "old")))
        @@ (<<NameApp>> :> DirEntry)
        @@ (<<NameApp, <<"f">>>> :> FileEntry(f))
        @@ (<<AnswersRelpath>> :> FileEntry(a))
      : x \in {JinjaRender(<<<<"X", ".tmpl">>>>, "old"), UserBytes},
        f \in {SourceBytes(<<<<"[[opt]]">>, <<"f">>>>), UserBytes},
        a \in {AnswersBytes(LicGiven, "old"), AnnotatedAnswersBytes(LicGiven, "old")} }

engineVars == <<cfg, pc, fs, scratch, stack, run, log>>

\* no Worker
EngineIdle ==
    /\ cfg = "idle" /\ pc = "idle" /\ fs = NoTree /\ scratch = NoTree
    /\ stack = <<>> /\ run = NoRun /\ log = NoLog

\* a Worker is made, on a destination
EngineInit ==
    /\ \/ cfg \in CopyWorkers /\ fs \in CopyDestinations
       \/ cfg \in UpdateWorkers /\ fs \in UpdateDestinations
    /\ (cfg.parent = FALSE => fs = NoTree)
    /\ pc = "new"
    /\ scratch = NoTree
    /\ stack = <<>>
    /\ run = NoRun
    /\ log = NoLog

-----------------------------------------------------------------------------
(* Specifications. *)

\* the version gate of Template._raw_config
GateNext ==
    \/ LoadTemplateConfig /\ UNCHANGED <<mig, ans, qry, engineVars>>
    \/ ChangeEngineVersion /\ UNCHANGED <<mig, ans, qry, engineVars>>

InitGate == GateInit /\ mig = MigIdle /\ ans = AnsIdle /\ qry = QueryIdle /\ EngineIdle

SpecGate ==
    /\ InitGate
    /\ [][GateNext]_vars

\* Template.migration_tasks
MigNext ==
    \/ DeclareMigration /\ UNCHANGED <<gate, ans, qry, engineVars>>
    \/ CallMigrationTasks /\ UNCHANGED <<gate, ans, qry, engineVars>>

InitMigrations == MigInit /\ gate = GateIdle /\ ans = AnsIdle /\ qry = QueryIdle /\ EngineIdle

SpecMigrations ==
    /\ InitMigrations
    /\ [][MigNext]_vars

\* the answers a Worker collects and remembers
AnsNext ==
    \/ WorkerAnswers /\ UNCHANGED <<gate, mig, qry, engineVars>>
    \/ RememberAnswers /\ UNCHANGED <<gate, mig, qry, engineVars>>
    \/ LoadAnswersFile /\ UNCHANGED <<gate, mig, qry, engineVars>>

InitAnswers == AnsInit /\ gate = GateIdle /\ mig = MigIdle /\ qry = QueryIdle /\ EngineIdle

SpecAnswers ==
    /\ InitAnswers
    /\ [][AnsNext]_vars

\* run_auto: one run of a Worker
Next ==
    \/ RunCopy /\ UNCHANGED <<gate, mig, ans, qry, cfg>>
    \/ RenderFolder /\ UNCHANGED <<gate, mig, ans, qry, cfg>>
    \/ RenderFile /\ UNCHANGED <<gate, mig, ans, qry, cfg>>
    \/ ExecuteTask /\ UNCHANGED <<gate, mig, ans, qry, cfg>>
    \/ RunUpdate /\ UNCHANGED <<gate, mig, ans, qry, cfg>>
    \/ GitDiff /\ UNCHANGED <<gate, mig, ans, qry, cfg>>
    \/ ExecuteMigrationTask /\ UNCHANGED <<gate, mig, ans, qry, cfg>>
    \/ FreshCopy /\ UNCHANGED <<gate, mig, ans, qry, cfg>>
    \/ ApplyDiff /\ UNCHANGED <<gate, mig, ans, qry, cfg>>

Init == EngineInit /\ gate = GateIdle /\ mig = MigIdle /\ ans = AnsIdle /\ qry = QueryIdle

Spec ==
    /\ Init
    /\ [][Next]_vars


\* copy() into a destination that is not there or is empty, and copy() again
CopyTwiceNext ==
    \/ RunCopy /\ UNCHANGED <<gate, mig, ans, qry, cfg>>
    \/ RenderFolder /\ UNCHANGED <<gate, mig, ans, qry, cfg>>
    \/ RenderFile /\ UNCHANGED <<gate, mig, ans, qry, cfg>>
    \/ ExecuteTask /\ UNCHANGED <<gate, mig, ans, qry, cfg>>
    \/ CopyAgain /\ UNCHANGED <<gate, mig, ans, qry, cfg>>

InitCopyTwice ==
    /\ EngineInit
    /\ cfg.method = "copy" /\ cfg.parent /\ Files(fs) = {}
    /\ gate = GateIdle /\ mig = MigIdle /\ ans = AnsIdle /\ qry = QueryIdle

SpecCopyTwice ==
    /\ InitCopyTwice
    /\ [][CopyTwiceNext]_vars

\* query_user_data
QueryNext ==
    \/ QueryUserData /\ UNCHANGED <<gate, mig, ans, engineVars>>

InitQuery == QueryInit /\ gate = GateIdle /\ mig = MigIdle /\ ans = AnsIdle /\ EngineIdle

SpecQuery ==
    /\ InitQuery
    /\ [][QueryNext]_vars


\* run_update on a subproject with its answers file
UpdateAnswersNext ==
    \/ RunUpdate /\ UNCHANGED <<gate, mig, ans, qry, cfg>>
    \/ RenderFolder /\ UNCHANGED <<gate, mig, ans, qry, cfg>>
    \/ RenderFile /\ UNCHANGED <<gate, mig, ans, qry, cfg>>
    \/ ExecuteTask /\ UNCHANGED <<gate, mig, ans, qry, cfg>>
    \/ GitDiff /\ UNCHANGED <<gate, mig, ans, qry, cfg>>
    \/ ExecuteMigrationTask /\ UNCHANGED <<gate, mig, ans, qry, cfg>>
    \/ FreshCopy /\ UNCHANGED <<gate, mig, ans, qry, cfg>>
    \/ ApplyDiff /\ UNCHANGED <<gate, mig, ans, qry, cfg>>

InitUpdateAnswers ==
    /\ cfg \in UpdateAnswersWorkers
    /\ fs \in UpdateAnswersDestinations
    /\ pc = "new" /\ scratch = NoTree /\ stack = <<>> /\ run = NoRun /\ log = NoLog
    /\ gate = GateIdle /\ mig = MigIdle /\ ans = AnsIdle /\ qry = QueryIdle

SpecUpdateAnswers ==
    /\ InitUpdateAnswers
    /\ [][UpdateAnswersNext]_vars

-----------------------------------------------------------------------------
(* Claims. *)

\* PEP-440 order as the claims state it: a <= b
Pep440LessOrEqual(a, b) == VersionLess(a, b) \/ CmpKey(a) = CmpKey(b)

V000a0 == VersionString(<<0, 0, 0>>, <<"a", 0>>, NoMark, NoMark)
V000post0 == VersionString(<<0, 0, 0>>, NoMark, <<0>>, NoMark)

\* C3: with _min_copier_version = R declared, loading the template
\* configuration raises UnsupportedVersionError exactly when the engine
\* version V is not the string "0.0.0" and V < R in PEP-440 order; "0.0.0a0"
\* and "0.0.0.post0" are gated like any other version; it is so on a first
\* copy and on a later copy into an existing subproject.
C3_VersionGate ==
    (gate.result # "none" /\ gate.min # NoMinVersion) =>
        /\ gate.result = "raised" <=>
              /\ gate.version.rel # <<0, 0, 0>> \/ gate.version.pre # NoMark
                    \/ gate.version.post # NoMark \/ gate.version.dev # NoMark
              /\ VersionLess(gate.version, gate.min)
        /\ (gate.version \in {V000a0, V000post0} /\ gate.min.rel[1] >= 1)
              => gate.result = "raised"
        /\ Pep440LessOrEqual(gate.min, gate.version) => gate.result = "passed"

\* C3 witness: a later copy into an existing subproject is refused for the
\* near-sentinel version 0.0.0.post0
C3_Witness ==
    /\ gate.existing /\ gate.loads = 2 /\ gate.result = "raised"
    /\ gate.version = V000post0

\* C5: for an update from v_old to v_new and each stage, a migration's tasks
\* are selected exactly when v_old < v <= v_new; each selected migration's
\* tasks of the stage appear exactly once, in declared migration order and
\* declared task order.
C5_MigrationSelection ==
    (mig.stage # "none" /\ mig.from # NoRef) =>
        LET R == mig.result
            M == mig.migrations
            Selected(i) == /\ VersionLess(mig.from, M[i].version)
                           /\ Pep440LessOrEqual(M[i].version, mig.to)
            Declared(i) == IF mig.stage = "before" THEN {1, 2}
                           ELSE IF M[i].hasAfter THEN {1} ELSE {}
        IN /\ \A p \in 1..Len(R) :
                /\ R[p].migration \in 1..Len(M)
                /\ Selected(R[p].migration)
                /\ R[p].STAGE = mig.stage
                /\ R[p].task \in Declared(R[p].migration)
           /\ \A i \in 1..Len(M) : \A k \in Declared(i) :
                Selected(i) =>
                    Cardinality({p \in 1..Len(R) :
                                    R[p].migration = i /\ R[p].task = k}) = 1
           /\ \A p, q \in 1..Len(R) :
                p < q => \/ R[p].migration < R[q].migration
                         \/ /\ R[p].migration = R[q].migration
                            /\ R[p].task < R[q].task

\* C5 witness: of two declared migrations, the one at v_old is left out and
\* the one at v_new has run its `before` tasks
C5_Witness ==
    /\ mig.stage = "before" /\ Len(mig.migrations) = 2
    /\ CmpKey(mig.migrations[1].version) = CmpKey(mig.from)
    /\ CmpKey(mig.migrations[2].version) = CmpKey(mig.to)
    /\ Len(mig.result) = 2
    /\ mig.result[1].migration = 2

\* a key is marked secret in copier.yml: by `secret: true` in its details or
\* by being listed in _secret_questions
MarkedSecret(k) ==
    \E i \in 1..Len(ans.data) :
        \/ /\ ans.data[i].key = k
           /\ ans.data[i].value.kind = "dict"
           /\ ans.data[i].value.secret
        \/ /\ ans.data[i].key = SecretQuestionsKey
           /\ k \in ans.data[i].value.names

\* C10: the name of a question marked secret is never a key of the mapping
\* _answers_to_remember returns, whichever layer gives its value.
C10_SecretsNotRemembered ==
    ans.phase = "remembered" =>
        \A k \in DOMAIN ans.remembered : ~MarkedSecret(k)

\* C10 witness: answers were remembered while one secret question had its
\* value from the user layer and another from the last answers, and a
\* question that is not secret was kept
C10_Witness ==
    /\ ans.phase = "remembered"
    /\ \E j, k \in QuestionNames :
         /\ j # k
         /\ MarkedSecret(j) /\ j \in DOMAIN ans.answers.user
         /\ MarkedSecret(k) /\ k \in DOMAIN ans.answers.last
                            /\ k \notin DOMAIN ans.answers.user
                            /\ k \notin DOMAIN ans.answers.init
    /\ SrcPathKey \in DOMAIN ans.remembered

\* the run made the destination directory
CreatedByRun == \E e \in log.events : e.op = "mkdir" /\ e.on = "real" /\ e.dst = <<>> /\ e.done

RemovedByEngine == \E i \in 1..Len(log.steps) : log.steps[i].what = "rmtree"

C2_ExistingNeverRemoved ==
    (run.phase \in {"copy", "fresh"} /\ run.was_existing) =>
        /\ Exists(fs, <<>>)
        /\ ~RemovedByEngine
        /\ pc = "failed" => \A p \in Files(run.before) : p \in Files(fs)

\* C2 witness: a copy into a folder with the user's files failed in a task
\* with cleanup_on_error true
C2_Witness ==
    /\ pc = "failed" /\ run.phase = "copy" /\ run.was_existing
    /\ cfg.cleanup_on_error /\ run.raised = "CalledProcessError"
    /\ <<NameKeep>> \in Files(run.before)
    /\ \E e \in log.events : e.op = "write" /\ e.done

\* the Worker passes the checks run_update makes before the downgrade test
UpdatePreconditions ==
    /\ cfg.method = "update" /\ cfg.vcs = "git" /\ ~cfg.dirty
    /\ cfg.old_src /\ cfg.old_ref # NoRef /\ cfg.new_commit # NoRef

RefusedAtOnce ==
    /\ pc = "failed" /\ run.error = "UserMessageError"
    /\ run.phase = "none"

\* C4: in run_update, when the old reference and the new commit both parse
\* as PEP-440 versions and old > new, run_update fails with a
\* UserMessageError before any write to the real destination (no render, no
\* task, no diff applied); when one of them does not parse, the update is not
\* refused for downgrade.
C4_DowngradeRefused ==
    (UpdatePreconditions /\ pc # "new") =>
        IF cfg.old_ref.ok /\ cfg.new_commit.ok /\ VersionLess(cfg.new_commit, cfg.old_ref)
        THEN /\ RefusedAtOnce
             /\ fs = run.before /\ log = NoLog /\ scratch = NoTree
        ELSE ~RefusedAtOnce

\* C4 witness: an update from 1.1 to 1 was refused
C4_Witness ==
    /\ UpdatePreconditions /\ RefusedAtOnce
    /\ cfg.old_ref = V2 /\ cfg.new_commit = V1

\* the exclude patterns in force: the template's (the defaults) and the
\* caller's
ExcludePatterns == {<<"copier.yml">>, <<".git">>} \cup cfg.exclude

\* C6: at a rendered destination path other than the copy root that matches
\* an exclude pattern the render pipeline writes no file and makes no
\* directory, and it renders nothing beneath an excluded directory, whatever
\* force and skip_if_exists are.
C6_ExcludedNeverRendered ==
    \A e \in log.events :
        \A i \in 1..Len(e.dst) : e.dst[i] \notin ExcludePatterns

\* C6 witness: a forced copy that excludes sub and X ended, having written
\* other files into a destination that held an X
C6_Witness ==
    /\ pc = "done" /\ cfg.method = "copy" /\ cfg.force
    /\ cfg.exclude = {NameSub, NameX} /\ cfg.subdirectory = <<>>
    /\ <<NameX>> \in Files(run.before)
    /\ \E e \in log.events : e.op = "write" /\ e.done
    /\ ~Exists(fs, <<NameSub>>)

\* C7 as stated: a destination file that exists before a run and matches the
\* skip-if-exists matcher (the template's patterns and the caller's) has the
\* same bytes after the run, whatever force is and whatever the template
\* renders for it.
C7_SkippedFileUnchanged ==
    run.phase # "none" =>
        \A p \in Files(run.before) :
            MatchSkip(p) => (p \in Files(fs) /\ fs[p].bytes = run.before[p].bytes)

\* C8 as stated: where X and X + templates_suffix both exist under the copy
\* root, the raw X is never copied, the file written at X is the rendering
\* of X + templates_suffix, and no file named X + templates_suffix is
\* written.
C8_TemplatedSiblingWins ==
    \A e \in log.events :
        e.op = "write" =>
            /\ ~(/\ ~EndsWith(e.src[Len(e.src)], TemplatesSuffix)
                 /\ WithSuffix(e.src, TemplatesSuffix) \in DOMAIN TemplateTree)
            /\ ~EndsWith(e.dst[Len(e.dst)], TemplatesSuffix)

\* a template path one of whose parts, from the copy root, renders to the
\* empty string
RendersEmpty(src) ==
    \E i \in (Len(TemplateCopyRoot) + 1)..Len(src) : RenderString(src[i]) = <<>>

\* C9: when a component of a template path renders to the empty string,
\* _render_path returns no destination path for it, and the render pipeline
\* writes no file and makes no directory for that path or anything beneath
\* it.
C9_EmptyPartPruned ==
    pc # "idle" =>
        /\ \A src \in DOMAIN TemplateTree :
              (IsPrefix(TemplateCopyRoot, src) /\ RendersEmpty(src))
                  => RenderPath(RelativeTo(src, TemplateCopyRoot)).none
        /\ \A e \in log.events : ~RendersEmpty(e.src)

\* C9 witness: a copy ended whose folder [[opt]] rendered to the empty
\* string, while other files were written
C9_Witness ==
    /\ pc = "done" /\ cfg.method = "copy" /\ cfg.opt = <<>> /\ cfg.subdirectory = <<>>
    /\ ~cfg.pretend
    /\ \E e \in log.events : e.op = "write" /\ e.done
    /\ \A p \in DOMAIN fs : p = <<>> \/ p[Len(p)] # <<"f">>

\* a Python str as yaml.safe_load gives it back
LoadedStr(a) == [type |-> "str", text |-> a.v]

\* the keys of `data` that the claim is about: JSON-serializable and not
\* secret
Persistable(A, k) == A[k].json /\ k \notin SecretQuestions(ans.data)

\* C11 as stated: for data A that is JSON-serializable and holds no secret
\* key, the answers file loaded back after the copy is A with _src_path and
\* (when the template has a commit) _commit: every entry of A with its
\* value, and no other key.
C11_RoundTripIsData ==
    LET A == ans.answers.init
        internal == IF ans.hasCommit THEN {SrcPathKey, CommitKey} ELSE {SrcPathKey}
    IN (ans.phase = "loaded" /\ \A k \in DOMAIN A : Persistable(A, k)) =>
          /\ DOMAIN ans.loaded = DOMAIN A \cup internal
          /\ \A k \in DOMAIN A : ans.loaded[k] = LoadedStr(A[k])

\* C11, amended: the answers file loaded back after copy(A) holds every
\* entry of A that is JSON-serializable, not secret and whose key does not
\* start with "_", with the same value; _src_path, and _commit exactly when
\* the template has a commit, with the template's values; and besides these
\* only keys that do not start with "_" and are not secret, each a question
\* or a key of the destination's previous answers, with the value the
\* layers user, last, default give it.
C11_RoundTrip ==
    LET A == ans.answers.init
        L == ans.loaded
        rest == [ans.answers EXCEPT !.init = EmptyMap]
    IN ans.phase = "loaded" =>
          /\ \A k \in DOMAIN A :
                (Persistable(A, k) /\ Head(k) # "_") =>
                    (k \in DOMAIN L /\ L[k] = LoadedStr(A[k]))
          /\ SrcPathKey \in DOMAIN L /\ L[SrcPathKey] = LoadedStr(Answer("url", TRUE))
          /\ CommitKey \in DOMAIN L <=> ans.hasCommit
          /\ ans.hasCommit => L[CommitKey] = LoadedStr(Answer("commit", TRUE))
          /\ \A k \in DOMAIN L \ {SrcPathKey, CommitKey} :
                /\ Head(k) # "_"
                /\ k \notin SecretQuestions(ans.data)
                /\ k \notin DOMAIN A =>
                      /\ k \in DOMAIN QuestionsData(ans.data) \cup DOMAIN ans.answers.last
                      /\ L[k] = LoadedStr(Combined(rest)[k])

\* C11 witness: data with a question's answer and an internal key was
\* persisted and loaded back, beside the user's answer "yes" to the other
\* question, from a template with a commit
C11_Witness ==
    /\ ans.phase = "loaded" /\ ans.hasCommit
    /\ DOMAIN ans.answers.init = {<<"a">>, DataOnlyKey}
    /\ ans.answers.init[<<"a">>].json
    /\ DOMAIN ans.loaded = {SrcPathKey, CommitKey, <<"a">>, <<"b">>}
    /\ ans.loaded[<<"b">>] = [type |-> "str", text |-> "yes"]

ReportNames == {"create", "identical", "conflict", "skip", "force"}

\* C12 as stated, for copies that write (pretend is false): a second copy
\* with the same inputs, the first having started from an empty destination,
\* reports every rendered file and directory as identical (no create,
\* conflict, skip or force), and leaves the destination as the first copy
\* left it.
C12_SecondCopyIdentical ==
    (run.again /\ ~cfg.pretend) =>
        /\ \A e \in log.events : e.op \in ReportNames => e.op = "identical"
        /\ pc = "done" => fs = run.before

\* C13: run_update raises a UserMessageError, without making the scratch
\* directory and without any write to the real destination, whenever a
\* precondition fails: the subproject is git-tracked; its working tree is
\* clean; the prior answers give the old template's source and its
\* reference; the new template has a commit.
C13_PreconditionsChecked ==
    (/\ cfg.method = "update" /\ pc # "new"
     /\ \/ cfg.vcs # "git"
        \/ cfg.dirty
        \/ ~cfg.old_src
        \/ cfg.old_ref = NoRef
        \/ cfg.new_commit = NoRef) =>
        /\ pc = "failed" /\ run.error = "UserMessageError"
        /\ scratch = NoTree /\ log = NoLog
        /\ fs = run.before

\* C13 witness: an update of a git-tracked subproject from a known template
\* to a template with a commit was refused, the working tree being dirty
C13_Witness ==
    /\ cfg.method = "update" /\ pc = "failed" /\ run.error = "UserMessageError"
    /\ cfg.dirty /\ cfg.vcs = "git" /\ cfg.old_src
    /\ cfg.old_ref = V1 /\ cfg.new_commit = V2
    /\ fs = run.before /\ fs # NoTree

\* a step of the log that is one of `names`
Logged(names) == \E i \in 1..Len(log.steps) : log.steps[i].what \in names

\* run_update failed at a step up to and including the diff
FailedBeforeDiffEnded ==
    /\ cfg.method = "update" /\ pc = "failed"
    /\ run.phase = "shadow" /\ ~Logged({"diff"})

\* C14: when a step of run_update up to and including the diff fails (the
\* old template's render into the scratch directory, the git commands
\* there, the diff), the update ends with the real destination unchanged: no
\* file of it written, no migration task run, no diff applied.
C14_FailureBeforeDiffLeavesDestination ==
    FailedBeforeDiffEnded =>
        /\ fs = run.before
        /\ \A e \in log.events : e.on = "scratch"
        /\ \A i \in 1..Len(log.steps) : log.steps[i].on = "scratch"
        /\ ~Logged({"before", "after", "apply", "rmtree"})

\* C14 witness: the old template was rendered into the scratch directory
\* and a git command there failed, the user's X being in the destination
C14_Witness ==
    /\ FailedBeforeDiffEnded /\ run.raised = "ProcessExecutionError"
    /\ \E e \in log.events : e.op = "write" /\ e.done /\ e.on = "scratch"
    /\ ReadBytes(fs, <<NameX>>).bytes = UserBytes

\* the places in the log of the steps that are `what` on `on`
Places(what, on) ==
    {i \in 1..Len(log.steps) : log.steps[i].what = what /\ log.steps[i].on = on}

\* every place of I is before every place of J
AllBefore(I, J) == \A i \in I, j \in J : i < j

\* C15: in run_update the old template's render into the scratch directory
\* and the diff end before a `before` migration task starts; all `before`
\* tasks end before the new template's render into the real destination
\* starts; the diff is applied only after that render and the template's
\* tasks have ended; the `after` tasks run only after the diff is applied.
C15_UpdateOrder ==
    cfg.method = "update" =>
        LET shadow == Places("shadow", "scratch") \cup Places("render", "scratch")
                        \cup Places("task", "scratch")
            diff   == Places("diff", "scratch")
            before == Places("before", "real")
            render == Places("render", "real")
            tasks  == Places("task", "real")
            apply  == Places("apply", "real")
            after  == Places("after", "real")
        IN /\ AllBefore(shadow, diff) /\ AllBefore(diff, before)
           /\ before # {} => (diff # {} /\ Places("render", "scratch") # {}
                              /\ scratch = NoTree)
           /\ AllBefore(before, render)
           /\ render # {} =>
                 /\ diff # {}
                 /\ Cardinality(before) = Len(UpdateMigrationTasks("before").tasks)
           /\ AllBefore(render, tasks) /\ AllBefore(render, apply)
           /\ AllBefore(tasks, apply)
           /\ apply # {} =>
                 /\ render # {} /\ stack = <<>>
                 /\ Cardinality(tasks) = cfg.tasks
                 /\ pc \in {"after", "done", "failed"}
           /\ AllBefore(apply, after)
           /\ after # {} => apply # {}
           /\ pc = "done" =>
                 /\ apply # {}
                 /\ Cardinality(after) = Len(UpdateMigrationTasks("after").tasks)

\* C15 witness: an update ended after two `before` tasks, the render and a
\* task of the template, the diff applied and an `after` task
C15_Witness ==
    /\ cfg.method = "update" /\ pc = "done"
    /\ Cardinality(Places("before", "real")) = 2
    /\ Cardinality(Places("task", "real")) = 1
    /\ Cardinality(Places("apply", "real")) = 1
    /\ Cardinality(Places("after", "real")) = 1
    /\ \E e \in log.events : e.op = "write" /\ e.done /\ e.on = "real"

TaskKinds == {<<"task", "scratch">>, <<"task", "real">>,
              <<"before", "real">>, <<"after", "real">>}

\* the steps of the log without the rmtree of run_copy's except clause
StepsRun == SelectSeq(log.steps, LAMBDA st : st.what # "rmtree")

\* C16: _execute_tasks runs its tasks one at a time in declared order; when
\* task i exits with a non-zero status the failure reaches the caller and no
\* later task is started.  In run_copy the template's tasks start only after
\* the whole render walk has ended.
C16_TasksInOrder ==
    pc # "idle" =>
        /\ \A k \in TaskKinds :
              LET of == SelectSeq(log.steps,
                                  LAMBDA st : st.what = k[1] /\ st.on = k[2])
              IN \A i \in 1..Len(of) : of[i].n = i
        /\ run.raised = "CalledProcessError" =>
              /\ pc = "failed" /\ run.error = "CalledProcessError"
              /\ StepsRun[Len(StepsRun)].what \in {"task", "before", "after"}
        /\ pc = "tasks" => stack = <<>>
        /\ stack # <<>> => Places("task", Running.on) = {}

\* C16 witness: the second `before` task of an update failed, after the
\* first and after the old template's task in the scratch directory
C16_Witness ==
    /\ pc = "failed" /\ run.raised = "CalledProcessError"
    /\ Cardinality(Places("before", "real")) = 2
    /\ Cardinality(Places("task", "scratch")) = 1
    /\ log.steps[Len(log.steps)] = Step("before", 2, "real")

\* the render walk of a copy has ended without an exception
WalkEnded == run.phase = "copy" /\ stack = <<>> /\ pc \in {"tasks", "done"}

\* the walk went into the template folder d: _render_folder got to its loop
Entered(d) == \E e \in log.events : e.op = "mkdir" /\ e.src = d

\* the lines reported for the template path src
Said(src) == {e.op : e \in {x \in log.events : x.op \in ReportNames /\ x.src = src}}

\* C17: with pretend=true the render pipeline makes no directory and writes
\* no file in the destination, and it takes every path of the template
\* through path rendering, exclusion and the conflict policy as it does with
\* pretend=false: every entry of a folder the walk went into, unless its
\* path is suppressed or excluded, is reported, and is rendered exactly when
\* the policy allows it.
C17_PretendRendersNothing ==
    /\ pc = "idle" \/ ~cfg.pretend \/
          /\ \A e \in log.events : ~e.done
          /\ (run.phase = "copy" /\ ~Logged({"task"})) => fs = run.before
    /\ WalkEnded =>
          \A src \in DOMAIN TemplateTree :
              LET rel == RelativeTo(src, TemplateCopyRoot)
                  dst == RenderPath(rel)
                  rendered == \E e \in log.events :
                                 e.op \in {"mkdir", "write"} /\ e.src = src
              IN (IsPrefix(TemplateCopyRoot, src) /\ src # TemplateCopyRoot
                    /\ Entered(Parent(src))) =>
                   IF dst.none \/ \E i \in 1..Len(dst.path) : dst.path[i] \in ExcludePatterns
                   THEN Said(src) = {} /\ ~rendered
                   ELSE /\ Said(src) # {}
                        /\ "skip" \in Said(src) => ~rendered
                        /\ Said(src) \cap {"create", "identical", "force"} # {} => rendered
                        /\ \A e \in log.events :
                              (e.op \in {"mkdir", "write"} /\ e.src = src)
                                  => (e.done <=> ~cfg.pretend)

\* C17 witness: a pretended copy onto the user's files ended: the folder
\* app was gone into without being made, X was in conflict and skipped, and
\* the destination is as it was
C17_Witness ==
    /\ WalkEnded /\ cfg.pretend /\ pc = "done"
    /\ fs = run.before /\ <<NameX>> \in Files(fs)
    /\ Said(<<<<"X", ".tmpl">>>>) = {"conflict", "skip"}
    /\ Said(<<<<"[[opt]]">>, <<"f">>>>) = {"create"}
    /\ ~Exists(fs, <<NameApp>>)

\* C18 as stated: with pretend=true a whole run changes nothing: when
\* run_copy has ended the destination tree is what it was before the run,
\* the template's tasks included.
C18_PretendChangesNothing ==
    (pc # "idle" /\ cfg.pretend /\ pc \in {"done", "failed"}) => fs = run.before

\* the conflicts _solve_render_conflict reported
Conflicts == {e \in log.events : e.op = "conflict"}

\* what the log holds of the same worker for the template path of event e
OpsAt(e) == {x.op : x \in {y \in log.events : y.on = e.on /\ y.src = e.src}}

\* the force of the worker that logged event e
ForceOf(e) == IF e.on = "real" THEN cfg.force ELSE TRUE

\* C19: a conflict is settled in a fixed priority.  A path of the skip
\* matcher is reported as skip and is not rendered, whatever force is;
\* otherwise with force it is reported as force and rendered (or the write
\* itself raises); otherwise neither skip nor force is reported and the
\* user's answer decides.
C19_ConflictPriority ==
    \A e \in Conflicts :
        IF MatchSkip(e.dst)
        THEN "skip" \in OpsAt(e) /\ OpsAt(e) \cap {"force", "write", "mkdir"} = {}
        ELSE IF ForceOf(e)
        THEN /\ "force" \in OpsAt(e) /\ "skip" \notin OpsAt(e)
             /\ OpsAt(e) \cap {"write", "mkdir"} # {} \/ pc = "failed"
        ELSE OpsAt(e) \cap {"skip", "force"} = {}

\* C19 witness: a run with force whose conflict at a path of the skip matcher
\* was refused, the destination file kept as it was
C19_Witness ==
    /\ pc = "done" /\ cfg.force /\ ~cfg.pretend /\ cfg.method = "copy"
    /\ \E e \in Conflicts :
          /\ MatchSkip(e.dst) /\ "skip" \in OpsAt(e)
          /\ e.dst \in Files(fs) /\ ReadBytes(fs, e.dst) = ReadBytes(run.before, e.dst)

\* C20 as stated: directories are made as by `mkdir -p`: a copy that writes
\* into a destination that does not exist makes the destination root, also
\* when the folder that is to hold the root does not exist.
C20_MkdirParents ==
    (pc \notin {"idle", "new"} /\ cfg.method = "copy" /\ ~cfg.pretend /\ run.before = NoTree) =>
        \E e \in log.events : e.op = "mkdir" /\ e.dst = <<>> /\ e.done

\* the names of the template's entries in lexicographic (byte) order
LexOrder ==
    << <<"X">>, <<"X", ".tmpl">>, <<"Y">>, <<"Y", ".tmpl">>, AnswersTemplate, <<"[[opt]]">>,
       <<"copier.yml">>, <<"f">>, <<"sub">> >>

LexRank(p) == CHOOSE i \in 1..Len(LexOrder) : LexOrder[i] = p[Len(p)]

\* the entries S of one folder, in lexicographic order
RECURSIVE Sorted(_)
Sorted(S) ==
    IF S = {} THEN <<>>
    ELSE LET first == CHOOSE p \in S : \A q \in S : LexRank(p) <= LexRank(q)
         IN <<first>> \o Sorted(S \ {first})

\* the destination a forcing Worker leaves when it takes the entries of
\* todo, and of the folders it goes into, in lexicographic order
RECURSIVE LexWalk(_, _)
LexWalk(tree, todo) ==
    IF todo = <<>> THEN tree
    ELSE LET src == Head(todo)
             o == IF TemplateIsDir(src)
                  THEN CHOOSE x \in RenderFolderOutcomes(Self, tree, src) : TRUE
                  ELSE CHOOSE x \in RenderFileOutcomes(Self, tree, src) : TRUE
         IN IF o.err # "" THEN tree
            ELSE LexWalk(o.tree, (IF o.push THEN Sorted(IterDir(src)) ELSE <<>>) \o Tail(todo))

\* C21 as stated: the walk is deterministic.  With force (no prompt decides
\* anything) a copy whose walk has ended has left the destination that the
\* walk in lexicographic order leaves, also when two entries of the template
\* render to one destination path.
C21_WalkDeterministic ==
    (WalkEnded /\ cfg.method = "copy" /\ cfg.force /\ ~Logged({"task"})) =>
        fs = LexWalk(run.before, <<TemplateCopyRoot>>)

\* the scratch directory's scope: from the shadow render to the diff
InScratchScope == run.phase = "shadow" /\ pc \in {"render", "tasks", "git"}

\* C22: the scratch directory of run_update exists only within its scope: it
\* is gone when the diff has been computed and when the shadow copy or a git
\* command in it failed, and every step after the diff is on the real
\* destination.
C22_ScratchRemoved ==
    /\ scratch # NoTree => InScratchScope
    /\ \A i \in 1..Len(log.steps) :
          log.steps[i].on = "scratch" => AllBefore({i}, Places("diff", "scratch") \ {i})
    /\ \A i \in Places("diff", "scratch"), j \in 1..Len(log.steps) :
          j > i => log.steps[j].on = "real"

\* C22 witness: a git command in the scratch directory failed after the old
\* template was rendered there, and the directory is gone
C22_Witness ==
    /\ pc = "failed" /\ run.raised = "ProcessExecutionError" /\ scratch = NoTree
    /\ \E e \in log.events : e.on = "scratch" /\ e.op = "write" /\ e.done

\* the questions query_user_data has resolved
Resolved == {qry.questions[j] : j \in 1..(IF qry.phase = "idle" THEN 0 ELSE qry.i - 1)}

\* the final answer of a resolved question: the forced answer, else the
\* prompted one, else the last one, else the default rendered and cast
FinalAnswer(q) ==
    IF q.name \in DOMAIN qry.forced THEN qry.forced[q.name]
    ELSE IF q.name \in DOMAIN qry.prompted THEN qry.prompted[q.name]
    ELSE IF q.name \in DOMAIN qry.last THEN qry.last[q.name]
    ELSE qry.defaults[q.name]

\* C23: a resolved question is a key of the result exactly when its final
\* answer differs from its `default` field as written (from the default
\* rendered and cast when it has no such field); a forced answer is never
\* prompted, and with ask_user every other question is.
C23_RecordedIffNotRawDefault ==
    /\ \A q \in Resolved :
          q.name \in DOMAIN qry.result <=>
              FinalAnswer(q) # (IF q.hasDefault THEN q.default ELSE qry.defaults[q.name])
    /\ DOMAIN qry.prompted \cap DOMAIN qry.forced = {}
    /\ \A q \in Resolved :
          q.name \in DOMAIN qry.prompted <=> (qry.ask_user /\ q.name \notin DOMAIN qry.forced)
    /\ DOMAIN qry.result \subseteq {q.name : q \in Resolved}

\* C23 witness: b's default is an expression; nobody answers b, and b is in
\* the result with the default as rendered, while a, answered by its default
\* as written, is not
C23_Witness ==
    /\ qry.phase = "returned"
    /\ qry.questions[2].default = PyStr(ExprA) /\ qry.questions[1].default = PyStr("x")
    /\ ~qry.ask_user /\ qry.forced = EmptyMap /\ qry.last = EmptyMap
    /\ DOMAIN qry.result = {<<"b">>} /\ qry.result[<<"b">>] = PyStr("x")

\* the answers file of the real destination was written by the Worker self
WrittenAnswers ==
    {e \in log.events : e.on = "real" /\ e.op = "write" /\ e.done
                        /\ e.src = <<AnswersTemplate>>}

\* C24: in run_update the render of the new template starts after the
\* `before` migration tasks, with the cached answers and last answers
\* dropped: the answers it renders with are computed from the answers file
\* as the `before` tasks left it (as a migration rewrote it, when one did),
\* and the answers file it writes holds them.
C24_AnswersRecomputed ==
    run.phase = "fresh" =>
        /\ AllBefore(Places("before", "real"), Places("render", "real"))
        /\ run.last = LastAnswers(run.fresh_from)
        /\ run.answers = EngineAnswers(LastAnswers(run.fresh_from))
        /\ (cfg.migrates /\ Logged({"before"})) => run.answers.lic = LicMigrated
        /\ \A e \in WrittenAnswers : e.bytes = AnswersBytes(run.answers.lic, "new")

\* C24 witness: an update whose `before` task migrated the answers ended, and
\* the answers file holds the migrated answer at the new version
C24_Witness ==
    /\ pc = "done" /\ cfg.migrates /\ Logged({"before"})
    /\ WrittenAnswers # {}
    /\ fs[<<AnswersRelpath>>].bytes = AnswersBytes(LicMigrated, "new")
    /\ run.before[<<AnswersRelpath>>].bytes.src = <<LicGiven>>

\* the paths the caller's skip_if_exists patterns match (as match_skip does)
CallerSkips(p) == PathMatcher({RenderString(n) : n \in cfg.skip_if_exists}, p)

\* C25 as stated: the step of run_update that applies the cached diff leaves
\* the answers file and every file matching one of the caller's
\* skip_if_exists patterns as the fresh render left them, never fails the
\* update, and goes on to the `after` migration tasks.
C25_ApplyExcluded ==
    [][pc = "apply" =>
          /\ \A p \in Files(fs) :
                (p = <<AnswersRelpath>> \/ CallerSkips(p)) =>
                    (p \in Files(fs') /\ fs'[p] = fs[p])
          /\ pc' = (IF Len(UpdateMigrationTasks("after").tasks) = 0 THEN "done" ELSE "after")
          /\ run'.raised = ""]_vars

\* C26 as stated: the path the subproject loads the last answers from is
\* Worker.answers_relpath, the path the answers file is written at and that
\* is excluded from the diff, for every Worker.
C26_SameAnswersPath == SubprojectAnswersRelpath = AnswersRelpath

\* run_copy failed: an exception left it through its except clause
CopyFailed == pc = "failed" /\ run.origin # ""

\* C27 as stated: whenever run_copy fails, the exception that reaches the
\* caller is the one the render or the task raised, whether or not the
\* cleanup rule applies, also when the destination was never made.
C27_OriginalFailureReachesCaller ==
    CopyFailed => (run.error = run.raised /\ run.origin = "run")

====
